---- MODULE Spec2Model ----
(***************************************************************************)
(* The authoritative game-state store (package game, State) and the delta  *)
(* synchroniser of the gRPC game server, with the tick driver of package   *)
(* main.  Positions are the float32 pixel coordinates of the source; every *)
(* coordinate the model produces is an integer (integer start positions,   *)
(* integer speed), which float32 represents exactly.                       *)
(***************************************************************************)
EXTENDS Integers, Sequences, FiniteSets, TLC

VARIABLES
    worldMap,              \* State.worldMap: rows of tiles, fixed after NewState
    players,               \* State.players: id -> trackedPlayer (a Go map)
    lastBroadcastPlayers,  \* State.lastBroadcastPlayers: id -> pb.Player
    ret,                   \* the value the last operation returned
    liveIds,               \* history: ids added and not removed since
    sinceDelta,            \* history: id -> last add/remove since the last GenerateDeltaUpdate
    cleanSinceDelta,       \* history: no store mutation since the last GenerateDeltaUpdate
    mu,                    \* State.mu: the goroutine holding the lock, or NoHolder
    calls,                 \* goroutine -> its position in the method it runs, and its locals
    concHist,              \* history: the store before the goroutines ran, and their inputs
    held,                  \* the record a caller of the store was handed and still holds
    activeStreams,         \* gameServer.activeStreams: the ids with a registered stream
    streams,               \* id -> the state of the connection's stream
    delivered,             \* history: id -> the ids the deltas sent to it listed as removed
    received,              \* history: id -> the first messages its client received
    muStreams              \* gameServer.muStreams: the goroutine holding the lock, or NoHolder

concVars == <<mu, calls, concHist>>
aliasVars == <<held>>
srvVars == <<activeStreams, streams, delivered, received, muStreams>>

vars == <<worldMap, players, lastBroadcastPlayers, ret, liveIds, sinceDelta, cleanSinceDelta,
          mu, calls, concHist, held, activeStreams, streams, delivered, received, muStreams>>

-----------------------------------------------------------------------------
(* Program constants *)

PlayerHalfWidth == 64
PlayerHalfHeight == 64
PlayerMoveSpeed == 16
DefaultTileSize == 32
\* movementTimeout and tickRate in milliseconds
movementTimeout == 200
tickRate == 100
TileTypeEmpty == 0
TileTypeWall == 1
\* epsilon := float32(0.001) is EpsilonNum / EpsilonDen
EpsilonNum == 1
EpsilonDen == 1000

UNKNOWN == "UNKNOWN"
Directions == {"UNKNOWN", "UP", "DOWN", "LEFT", "RIGHT"}
AnimationStates == {"IDLE", "RUNNING_UP", "RUNNING_DOWN", "RUNNING_LEFT", "RUNNING_RIGHT"}

-----------------------------------------------------------------------------
(* Inputs of the model *)

\* ids the connection handler assigns ("player_%p"): all start with "play"
PlayerIDs == {"player_a", "player_b"}
\* usernames passed to AddPlayer; the handler passes "AnonPlayer" for an empty hello
Usernames == {"AnonPlayer"}
\* start coordinates passed to AddPlayer; the handler passes 100
StartCoords == {0, 100}
\* directions the clients send
InputDirections == {"UNKNOWN", "UP", "RIGHT"}
\* the inputs of the runs with time passing
TickStartCoords == {100}
TickUsernames == {"", "AnonPlayer"}
TickDirections == {"UNKNOWN", "UP"}

\* a 5 x 4 tile map without walls: x ranges over 64..96, y is 64
MapOpen == << <<0, 0, 0, 0, 0>>,
              <<0, 0, 0, 0, 0>>,
              <<0, 0, 0, 0, 0>>,
              <<0, 0, 0, 0, 0>> >>
Maps == {MapOpen}

\* the inputs of the runs about movement: every direction, start coordinates
\* below, inside and beyond the world
MoveStartCoords == {0, 100, 1000}
\* a 9 x 5 tile map with one wall tile in its top right corner: x ranges over
\* 64..224 and y over 64..96; a player box reaches the wall when x > 192 and
\* y < 96
MapWalled == << <<0, 0, 0, 0, 0, 0, 0, 0, 1>>,
                <<0, 0, 0, 0, 0, 0, 0, 0, 0>>,
                <<0, 0, 0, 0, 0, 0, 0, 0, 0>>,
                <<0, 0, 0, 0, 0, 0, 0, 0, 0>>,
                <<0, 0, 0, 0, 0, 0, 0, 0, 0>> >>
\* a 5 x 9 tile map with one wall tile in its bottom left corner: x ranges
\* over 64..96 and y over 64..224
MapTall == << <<0, 0, 0, 0, 0>>,
              <<0, 0, 0, 0, 0>>,
              <<0, 0, 0, 0, 0>>,
              <<0, 0, 0, 0, 0>>,
              <<0, 0, 0, 0, 0>>,
              <<0, 0, 0, 0, 0>>,
              <<0, 0, 0, 0, 0>>,
              <<0, 0, 0, 0, 0>>,
              <<1, 0, 0, 0, 0>> >>
MoveMaps == {MapWalled, MapTall}

-----------------------------------------------------------------------------
(* State fields derived from the loaded map (NewState) *)

mapTileHeight == Len(worldMap)
mapTileWidth == Len(worldMap[1])
tileSize == DefaultTileSize
worldMinX == 0
worldMinY == 0
worldMaxX == mapTileWidth * tileSize
worldMaxY == mapTileHeight * tileSize

-----------------------------------------------------------------------------
(* Pure helpers *)

\* clamp without the upper bound
clampNoMax(value, min, max) ==
    IF value < min THEN min ELSE value

clamp(value, min, max) ==
    IF value < min THEN min
    ELSE IF value > max THEN max
    ELSE value

\* Go's int(a / b) for b > 0: the quotient truncated toward zero
TruncDiv(a, b) == IF a >= 0 THEN a \div b ELSE -((-a) \div b)

\* the animation ApplyInput and GetAllPlayers derive from a direction
AnimationFor(dir) ==
    CASE dir = "UP" -> "RUNNING_UP"
      [] dir = "DOWN" -> "RUNNING_DOWN"
      [] dir = "LEFT" -> "RUNNING_LEFT"
      [] dir = "RIGHT" -> "RUNNING_RIGHT"
      [] OTHER -> "IDLE"

\* the sequences that list every element of S once: the orders a Go range
\* over a map with key set S can take
Orders(S) == {s \in [1..Cardinality(S) -> S] : \A i, j \in 1..Cardinality(S) : s[i] = s[j] => i = j}

SeqToSet(s) == {s[i] : i \in 1..Len(s)}

\* ids of the pb.Player records of a list
IdsOf(s) == {s[i].Id : i \in 1..Len(s)}


\* a Go map with one key set or replaced / deleted
MapPut(m, k, v) == [x \in (DOMAIN m) \cup {k} |-> IF x = k THEN v ELSE m[x]]
MapDelete(m, k) == [x \in (DOMAIN m) \ {k} |-> m[x]]
EmptyMap == [x \in {} |-> TRUE]

-----------------------------------------------------------------------------
(* Collision engine *)

checkMapCollision(centerX, centerY) ==
    LET minX == centerX - PlayerHalfWidth
        maxX == centerX + PlayerHalfWidth
        minY == centerY - PlayerHalfHeight
        maxY == centerY + PlayerHalfHeight
        startTileX == TruncDiv(minX, tileSize)
        endTileX == TruncDiv(maxX * EpsilonDen - EpsilonNum, tileSize * EpsilonDen)
        startTileY == TruncDiv(minY, tileSize)
        endTileY == TruncDiv(maxY * EpsilonDen - EpsilonNum, tileSize * EpsilonDen)
    IN \E ty \in startTileY..endTileY : \E tx \in startTileX..endTileX :
          \/ tx < 0 \/ tx >= mapTileWidth \/ ty < 0 \/ ty >= mapTileHeight
          \/ worldMap[ty + 1][tx + 1] = TileTypeWall

\* checkPlayerCollision without the test of otherID against playerID
checkPlayerCollisionWithSelf(ps, playerID, potentialX, potentialY) ==
    \E otherID \in DOMAIN ps :
        /\ potentialX - PlayerHalfWidth < ps[otherID].PlayerData.XPos + PlayerHalfWidth
        /\ potentialX + PlayerHalfWidth > ps[otherID].PlayerData.XPos - PlayerHalfWidth
        /\ potentialY - PlayerHalfHeight < ps[otherID].PlayerData.YPos + PlayerHalfHeight
        /\ potentialY + PlayerHalfHeight > ps[otherID].PlayerData.YPos - PlayerHalfHeight

checkPlayerCollision(ps, playerID, potentialX, potentialY) ==
    LET moveLeft == potentialX - PlayerHalfWidth
        moveRight == potentialX + PlayerHalfWidth
        moveTop == potentialY - PlayerHalfHeight
        moveBottom == potentialY + PlayerHalfHeight
    IN \E otherID \in DOMAIN ps :
          /\ otherID # playerID
          /\ LET otherX == ps[otherID].PlayerData.XPos
                 otherY == ps[otherID].PlayerData.YPos
                 otherLeft == otherX - PlayerHalfWidth
                 otherRight == otherX + PlayerHalfWidth
                 otherTop == otherY - PlayerHalfHeight
                 otherBottom == otherY + PlayerHalfHeight
                 xOverlap == (moveLeft < otherRight) /\ (moveRight > otherLeft)
                 yOverlap == (moveTop < otherBottom) /\ (moveBottom > otherTop)
             IN xOverlap /\ yOverlap

-----------------------------------------------------------------------------
(* Time.  LastInputTime is kept as the time elapsed since it was set       *)
(* (time.Since(LastInputTime)), in milliseconds, and stops growing at      *)
(* TimeCap: gameTick only tests whether it exceeds movementTimeout.        *)

TimeCap == movementTimeout + tickRate

Elapse(ps) ==
    [id \in DOMAIN ps |->
        [ps[id] EXCEPT !.SinceLastInput =
            IF @ + tickRate > TimeCap THEN TimeCap ELSE @ + tickRate]]

-----------------------------------------------------------------------------
(* Authoritative state store: the effect of each method on State.players   *)

\* "Player_" + playerID[:4]
DefaultUsername(playerID) == "Player_play"

\* the *pb.Player AddPlayer builds
NewPlayerData(playerID, username, startX, startY) ==
    [Id |-> playerID,
     Username |-> IF username = "" THEN DefaultUsername(playerID) ELSE username,
     XPos |-> clamp(startX, worldMinX + PlayerHalfWidth, worldMaxX - PlayerHalfWidth),
     YPos |-> clamp(startY, worldMinY + PlayerHalfHeight, worldMaxY - PlayerHalfHeight),
     CurrentAnimationState |-> "IDLE"]

AddPlayerPlayers(ps, playerID, username, startX, startY) ==
    MapPut(ps, playerID,
           [PlayerData |-> NewPlayerData(playerID, username, startX, startY),
            SinceLastInput |-> 0,
            LastDirection |-> UNKNOWN])

\* RemovePlayer that leaves the record in the map
RemovePlayerPlayersKeeps(ps, playerID) == ps

RemovePlayerPlayers(ps, playerID) ==
    IF playerID \in DOMAIN ps THEN MapDelete(ps, playerID) ELSE ps

\* the position tried with the y axis pointing up: UP adds to y
PotentialPositionYUp(currentX, currentY, direction) ==
    LET potentialX == CASE direction = "LEFT" -> currentX - PlayerMoveSpeed
                        [] direction = "RIGHT" -> currentX + PlayerMoveSpeed
                        [] OTHER -> currentX
        potentialY == CASE direction = "UP" -> currentY + PlayerMoveSpeed
                        [] direction = "DOWN" -> currentY - PlayerMoveSpeed
                        [] OTHER -> currentY
    IN << clamp(potentialX, worldMinX + PlayerHalfWidth, worldMaxX - PlayerHalfWidth),
          clamp(potentialY, worldMinY + PlayerHalfHeight, worldMaxY - PlayerHalfHeight) >>

\* the position ApplyInput tries: one step of PlayerMoveSpeed, clamped
PotentialPosition(currentX, currentY, direction) ==
    LET potentialX == CASE direction = "LEFT" -> currentX - PlayerMoveSpeed
                        [] direction = "RIGHT" -> currentX + PlayerMoveSpeed
                        [] OTHER -> currentX
        potentialY == CASE direction = "UP" -> currentY - PlayerMoveSpeed
                        [] direction = "DOWN" -> currentY + PlayerMoveSpeed
                        [] OTHER -> currentY
    IN << clamp(potentialX, worldMinX + PlayerHalfWidth, worldMaxX - PlayerHalfWidth),
          clamp(potentialY, worldMinY + PlayerHalfHeight, worldMaxY - PlayerHalfHeight) >>

\* canMove without the check against the other players
CanMoveWallsOnly(ps, playerID, potentialX, potentialY) ==
    ~checkMapCollision(potentialX, potentialY)

\* canMove of ApplyInput
CanMove(ps, playerID, potentialX, potentialY) ==
    IF checkMapCollision(potentialX, potentialY) THEN FALSE
    ELSE IF checkPlayerCollision(ps, playerID, potentialX, potentialY) THEN FALSE
    ELSE TRUE

\* ApplyInput that shows the running pose only when the player moved
ApplyInputPlayersPoseIfMoved(ps, playerID, direction) ==
    LET trackedP == ps[playerID]
        potential == PotentialPosition(trackedP.PlayerData.XPos,
                                       trackedP.PlayerData.YPos, direction)
        moved == /\ direction # UNKNOWN
                 /\ CanMove(ps, playerID, potential[1], potential[2])
        newData == [trackedP.PlayerData EXCEPT
                      !.XPos = IF moved THEN potential[1] ELSE @,
                      !.YPos = IF moved THEN potential[2] ELSE @,
                      !.CurrentAnimationState =
                          IF moved THEN AnimationFor(direction) ELSE "IDLE"]
    IN [ps EXCEPT ![playerID] =
            [PlayerData |-> newData, SinceLastInput |-> 0, LastDirection |-> direction]]

\* ApplyInput that leaves the animation state alone when the direction is UNKNOWN
ApplyInputPlayersKeepsPose(ps, playerID, direction) ==
    LET trackedP == ps[playerID]
        potential == PotentialPosition(trackedP.PlayerData.XPos,
                                       trackedP.PlayerData.YPos, direction)
        moved == /\ direction # UNKNOWN
                 /\ CanMove(ps, playerID, potential[1], potential[2])
        newData == [trackedP.PlayerData EXCEPT
                      !.XPos = IF moved THEN potential[1] ELSE @,
                      !.YPos = IF moved THEN potential[2] ELSE @,
                      !.CurrentAnimationState =
                          IF direction # UNKNOWN THEN AnimationFor(direction) ELSE @]
    IN [ps EXCEPT ![playerID] =
            [PlayerData |-> newData, SinceLastInput |-> 0, LastDirection |-> direction]]

\* State.players after ApplyInput(playerID, direction), playerID in the map
ApplyInputPlayers(ps, playerID, direction) ==
    LET trackedP == ps[playerID]
        currentX == trackedP.PlayerData.XPos
        currentY == trackedP.PlayerData.YPos
        potential == PotentialPosition(currentX, currentY, direction)
        moved == /\ direction # UNKNOWN
                 /\ CanMove(ps, playerID, potential[1], potential[2])
        intendedAnimation == AnimationFor(direction)
        newData == [trackedP.PlayerData EXCEPT
                      !.XPos = IF moved THEN potential[1] ELSE @,
                      !.YPos = IF moved THEN potential[2] ELSE @,
                      !.CurrentAnimationState =
                          IF moved \/ direction # UNKNOWN THEN intendedAnimation ELSE "IDLE"]
    IN [ps EXCEPT ![playerID] =
            [PlayerData |-> newData, SinceLastInput |-> 0, LastDirection |-> direction]]

\* State.players after UpdatePlayerDirection(playerID, dir)
UpdatePlayerDirectionPlayers(ps, playerID, dir) ==
    IF playerID \notin DOMAIN ps THEN ps
    ELSE IF ps[playerID].LastDirection # dir
         THEN [ps EXCEPT ![playerID].LastDirection = dir]
         ELSE ps

\* an UpdatePlayerDirection that returns true for every live player
UpdatePlayerDirectionChangedIfLive(ps, playerID, dir) == playerID \in DOMAIN ps

\* the bool UpdatePlayerDirection(playerID, dir) returns
UpdatePlayerDirectionChanged(ps, playerID, dir) ==
    playerID \in DOMAIN ps /\ ps[playerID].LastDirection # dir

-----------------------------------------------------------------------------
(* Delta synchroniser *)

\* GenerateDeltaUpdate comparing positions only
GenerateDeltaUpdateResultPositionsOnly(ps, last, order, lastOrder) ==
    LET clones == [i \in 1..Len(order) |-> ps[order[i]].PlayerData]
        currentPlayerStateSnapshot == [id \in DOMAIN ps |-> ps[id].PlayerData]
        UpdatedPlayers ==
            SelectSeq(clones, LAMBDA p : \/ p.Id \notin DOMAIN last
                                         \/ last[p.Id].XPos # p.XPos
                                         \/ last[p.Id].YPos # p.YPos)
        RemovedPlayerIds == SelectSeq(lastOrder, LAMBDA id : id \notin DOMAIN ps)
        changed == Len(UpdatedPlayers) > 0 \/ Len(RemovedPlayerIds) > 0
    IN [delta |-> [UpdatedPlayers |-> UpdatedPlayers, RemovedPlayerIds |-> RemovedPlayerIds],
        changed |-> changed,
        lastBroadcastPlayers |-> IF changed THEN currentPlayerStateSnapshot ELSE last]

\* GenerateDeltaUpdate that never replaces the snapshot
GenerateDeltaUpdateResultNoSave(ps, last, order, lastOrder) ==
    LET clones == [i \in 1..Len(order) |-> ps[order[i]].PlayerData]
        UpdatedPlayers ==
            SelectSeq(clones, LAMBDA p : p.Id \notin DOMAIN last \/ last[p.Id] # p)
        RemovedPlayerIds == SelectSeq(lastOrder, LAMBDA id : id \notin DOMAIN ps)
        changed == Len(UpdatedPlayers) > 0 \/ Len(RemovedPlayerIds) > 0
    IN [delta |-> [UpdatedPlayers |-> UpdatedPlayers, RemovedPlayerIds |-> RemovedPlayerIds],
        changed |-> changed,
        lastBroadcastPlayers |-> last]

\* GenerateDeltaUpdate that lists only the players missing from the snapshot
GenerateDeltaUpdateResultNewOnly(ps, last, order, lastOrder) ==
    LET clones == [i \in 1..Len(order) |-> ps[order[i]].PlayerData]
        currentPlayerStateSnapshot == [id \in DOMAIN ps |-> ps[id].PlayerData]
        UpdatedPlayers == SelectSeq(clones, LAMBDA p : p.Id \notin DOMAIN last)
        RemovedPlayerIds == SelectSeq(lastOrder, LAMBDA id : id \notin DOMAIN ps)
        changed == Len(UpdatedPlayers) > 0 \/ Len(RemovedPlayerIds) > 0
    IN [delta |-> [UpdatedPlayers |-> UpdatedPlayers, RemovedPlayerIds |-> RemovedPlayerIds],
        changed |-> changed,
        lastBroadcastPlayers |-> IF changed THEN currentPlayerStateSnapshot ELSE last]

\* GenerateDeltaUpdate without the loop over the snapshot
GenerateDeltaUpdateResultNoRemoved(ps, last, order, lastOrder) ==
    LET clones == [i \in 1..Len(order) |-> ps[order[i]].PlayerData]
        currentPlayerStateSnapshot == [id \in DOMAIN ps |-> ps[id].PlayerData]
        UpdatedPlayers ==
            SelectSeq(clones, LAMBDA p : p.Id \notin DOMAIN last \/ last[p.Id] # p)
        changed == Len(UpdatedPlayers) > 0
    IN [delta |-> [UpdatedPlayers |-> UpdatedPlayers, RemovedPlayerIds |-> << >>],
        changed |-> changed,
        lastBroadcastPlayers |-> IF changed THEN currentPlayerStateSnapshot ELSE last]

\* GenerateDeltaUpdate whose second loop does not set changed
GenerateDeltaUpdateResultChangedOnUpdates(ps, last, order, lastOrder) ==
    LET clones == [i \in 1..Len(order) |-> ps[order[i]].PlayerData]
        currentPlayerStateSnapshot == [id \in DOMAIN ps |-> ps[id].PlayerData]
        UpdatedPlayers ==
            SelectSeq(clones, LAMBDA p : p.Id \notin DOMAIN last \/ last[p.Id] # p)
        RemovedPlayerIds == SelectSeq(lastOrder, LAMBDA id : id \notin DOMAIN ps)
        changed == Len(UpdatedPlayers) > 0
    IN [delta |-> [UpdatedPlayers |-> UpdatedPlayers, RemovedPlayerIds |-> RemovedPlayerIds],
        changed |-> changed,
        lastBroadcastPlayers |-> IF changed THEN currentPlayerStateSnapshot ELSE last]

\* GenerateDeltaUpdate on players ps and snapshot last; order and lastOrder
\* are the orders in which the two range loops visit the maps
GenerateDeltaUpdateResult(ps, last, order, lastOrder) ==
    LET clones == [i \in 1..Len(order) |-> ps[order[i]].PlayerData]
        currentPlayerStateSnapshot == [id \in DOMAIN ps |-> ps[id].PlayerData]
        UpdatedPlayers ==
            SelectSeq(clones, LAMBDA p : p.Id \notin DOMAIN last \/ last[p.Id] # p)
        RemovedPlayerIds == SelectSeq(lastOrder, LAMBDA id : id \notin DOMAIN ps)
        changed == Len(UpdatedPlayers) > 0 \/ Len(RemovedPlayerIds) > 0
    IN [delta |-> [UpdatedPlayers |-> UpdatedPlayers, RemovedPlayerIds |-> RemovedPlayerIds],
        changed |-> changed,
        lastBroadcastPlayers |-> IF changed THEN currentPlayerStateSnapshot ELSE last]

\* the list GetAllPlayers returns, the range loop visiting the players in
\* order: copies, each with the animation state derived from LastDirection
GetAllPlayersResult(ps, order) ==
    [i \in 1..Len(order) |->
        [ps[order[i]].PlayerData EXCEPT
            !.CurrentAnimationState = AnimationFor(ps[order[i]].LastDirection)]]

\* GetInitialStateDelta that also stores what it returns as the snapshot
GetInitialStateDeltaResultSaves(ps, last, order) ==
    [delta |-> [UpdatedPlayers |-> [i \in 1..Len(order) |-> ps[order[i]].PlayerData],
                RemovedPlayerIds |-> << >>],
     lastBroadcastPlayers |-> [id \in DOMAIN ps |-> ps[id].PlayerData]]

\* GetInitialStateDelta on players ps and snapshot last, the range loop
\* visiting the players in order; it does not write the snapshot
GetInitialStateDeltaResult(ps, last, order) ==
    [delta |-> [UpdatedPlayers |-> [i \in 1..Len(order) |-> ps[order[i]].PlayerData],
                RemovedPlayerIds |-> << >>],
     lastBroadcastPlayers |-> last]

-----------------------------------------------------------------------------
(* Tick driver *)

\* the ids gameTick resets: moving and with input older than movementTimeout
TimedOut(ps) ==
    {id \in DOMAIN ps : /\ ps[id].LastDirection # UNKNOWN
                        /\ ps[id].SinceLastInput > movementTimeout}

\* State.players after the sweep of gameTick
SweepPlayers(ps) ==
    [id \in DOMAIN ps |->
        IF id \in TimedOut(ps)
        THEN UpdatePlayerDirectionPlayers(ps, id, UNKNOWN)[id]
        ELSE ps[id]]

-----------------------------------------------------------------------------
(* The store's operations as atomic steps: every method holds State.mu for *)
(* its whole body.                                                         *)

NoEvents == [id \in PlayerIDs |-> "none"]

\* no goroutine holds State.mu
NoHolder == "none"
\* the goroutine that calls GenerateDeltaUpdate
Broadcaster == "broadcaster"
\* one goroutine per connection, named by its player id, and the broadcaster
Goroutines == PlayerIDs \cup {Broadcaster}
\* every goroutine outside the store's methods, no call made
IdleCalls == [t \in Goroutines |-> [pc |-> "idle", count |-> 0]]
NoHistory == [start |-> EmptyMap, inputs |-> [t \in PlayerIDs |-> << >>]]
\* no caller holds a record
NoRecord == [op |-> "none"]

\* NewGameServer: an empty registry; no connection was made
NoConnections ==
    /\ activeStreams = {}
    /\ streams = [id \in PlayerIDs |-> "none"]
    /\ delivered = [id \in PlayerIDs |-> {}]
    /\ received = [id \in PlayerIDs |-> << >>]
    /\ muStreams = NoHolder

InitOn(maps) ==
    /\ mu = NoHolder
    /\ calls = IdleCalls
    /\ concHist = NoHistory
    /\ held = NoRecord
    /\ NoConnections
    /\ worldMap \in maps
    /\ players = EmptyMap
    /\ lastBroadcastPlayers = EmptyMap
    /\ ret = [op |-> "NewState"]
    /\ liveIds = {}
    /\ sinceDelta = NoEvents
    /\ cleanSinceDelta = FALSE

Init == InitOn(Maps)

AddPlayer(playerID, username, startX, startY) ==
    /\ players' = AddPlayerPlayers(players, playerID, username, startX, startY)
    /\ ret' = [op |-> "AddPlayer", id |-> playerID, start |-> <<startX, startY>>,
               player |-> players'[playerID].PlayerData]
    /\ liveIds' = liveIds \cup {playerID}
    /\ sinceDelta' = [sinceDelta EXCEPT ![playerID] = "added"]
    /\ cleanSinceDelta' = FALSE
    /\ UNCHANGED <<worldMap, lastBroadcastPlayers>>

RemovePlayer(playerID) ==
    /\ players' = RemovePlayerPlayers(players, playerID)
    /\ ret' = [op |-> "RemovePlayer", id |-> playerID]
    /\ liveIds' = liveIds \ {playerID}
    /\ sinceDelta' = IF playerID \in DOMAIN players
                     THEN [sinceDelta EXCEPT ![playerID] = "removed"]
                     ELSE sinceDelta
    /\ cleanSinceDelta' = (cleanSinceDelta /\ players' = players)
    /\ UNCHANGED <<worldMap, lastBroadcastPlayers>>

ApplyInput(playerID, direction) ==
    /\ IF playerID \notin DOMAIN players
       THEN /\ players' = players
            /\ ret' = [op |-> "ApplyInput", id |-> playerID, ok |-> FALSE]
       ELSE /\ players' = ApplyInputPlayers(players, playerID, direction)
            /\ ret' = [op |-> "ApplyInput", id |-> playerID, ok |-> TRUE,
                       direction |-> direction,
                       from |-> <<players[playerID].PlayerData.XPos,
                                  players[playerID].PlayerData.YPos>>,
                       player |-> players'[playerID].PlayerData]
    /\ cleanSinceDelta' = (cleanSinceDelta /\ players' = players)
    /\ UNCHANGED <<worldMap, lastBroadcastPlayers, liveIds, sinceDelta>>

UpdatePlayerDirection(playerID, dir) ==
    /\ players' = UpdatePlayerDirectionPlayers(players, playerID, dir)
    /\ ret' = [op |-> "UpdatePlayerDirection", id |-> playerID, dir |-> dir,
               changed |-> UpdatePlayerDirectionChanged(players, playerID, dir)]
    /\ cleanSinceDelta' = (cleanSinceDelta /\ players' = players)
    /\ UNCHANGED <<worldMap, lastBroadcastPlayers, liveIds, sinceDelta>>

GenerateDeltaUpdate ==
    \E order \in Orders(DOMAIN players), lastOrder \in Orders(DOMAIN lastBroadcastPlayers) :
        LET r == GenerateDeltaUpdateResult(players, lastBroadcastPlayers, order, lastOrder)
        IN /\ lastBroadcastPlayers' = r.lastBroadcastPlayers
           /\ ret' = [op |-> "GenerateDeltaUpdate", delta |-> r.delta, changed |-> r.changed,
                      events |-> sinceDelta]
           /\ sinceDelta' = NoEvents
           /\ cleanSinceDelta' = TRUE
           /\ UNCHANGED <<worldMap, players, liveIds>>

GetInitialStateDelta ==
    \E order \in Orders(DOMAIN players) :
        LET r == GetInitialStateDeltaResult(players, lastBroadcastPlayers, order)
        IN /\ ret' = [op |-> "GetInitialStateDelta", delta |-> r.delta]
           /\ lastBroadcastPlayers' = r.lastBroadcastPlayers
           /\ UNCHANGED <<worldMap, players, liveIds, sinceDelta, cleanSinceDelta>>

GetAllPlayerIDs ==
    \E order \in Orders(DOMAIN players) :
        /\ ret' = [op |-> "GetAllPlayerIDs", ids |-> order]
        /\ UNCHANGED <<worldMap, players, lastBroadcastPlayers, liveIds, sinceDelta,
                       cleanSinceDelta>>

\* gameTick with no other operation running between its calls: the sweep,
\* then broadcastDeltaState (GenerateDeltaUpdate) if a direction was reset
gameTick ==
    LET swept == SweepPlayers(players)
        stateChangedDuringTick == TimedOut(players) # {}
    IN /\ players' = swept
       /\ IF stateChangedDuringTick
          THEN \E order \in Orders(DOMAIN swept),
                  lastOrder \in Orders(DOMAIN lastBroadcastPlayers) :
                  LET r == GenerateDeltaUpdateResult(swept, lastBroadcastPlayers,
                                                     order, lastOrder)
                  IN /\ lastBroadcastPlayers' = r.lastBroadcastPlayers
                     /\ ret' = [op |-> "gameTick", reset |-> TimedOut(players),
                                generated |-> TRUE,
                                delta |-> r.delta, changed |-> r.changed,
                                events |-> sinceDelta]
                     /\ sinceDelta' = NoEvents
                     /\ cleanSinceDelta' = TRUE
          ELSE /\ ret' = [op |-> "gameTick", reset |-> {}, generated |-> FALSE]
               /\ UNCHANGED <<lastBroadcastPlayers, sinceDelta, cleanSinceDelta>>
       /\ UNCHANGED <<worldMap, liveIds>>

\* tickRate milliseconds pass
TimePasses ==
    /\ players' = Elapse(players)
    /\ ret' = [op |-> "TimePasses"]
    /\ UNCHANGED <<worldMap, lastBroadcastPlayers, liveIds, sinceDelta, cleanSinceDelta>>

\* the store and the delta synchroniser, no time passing.  The handler's ids
\* ("player_%p" of its own stream variable) are unique among the live
\* connections, so AddPlayer is called with an id that is not live; an id
\* can come back after its player was removed.
Next ==
    /\ \/ \E playerID \in PlayerIDs \ DOMAIN players, username \in Usernames,
             startX, startY \in StartCoords :
             AddPlayer(playerID, username, startX, startY)
       \/ \E playerID \in PlayerIDs : RemovePlayer(playerID)
       \/ \E playerID \in PlayerIDs, direction \in InputDirections :
             ApplyInput(playerID, direction)
       \/ GenerateDeltaUpdate
       \/ GetInitialStateDelta
       \/ GetAllPlayerIDs
    /\ UNCHANGED <<concVars, aliasVars, srvVars>>

Spec == Init /\ [][Next]_vars

\* the store, the delta synchroniser and the tick driver, with time passing
NextTick ==
    /\ \/ \E playerID \in PlayerIDs \ DOMAIN players, username \in TickUsernames,
             start \in TickStartCoords :
             AddPlayer(playerID, username, start, start)
       \/ \E playerID \in PlayerIDs, direction \in TickDirections :
             ApplyInput(playerID, direction)
       \/ GenerateDeltaUpdate
       \/ gameTick
       \/ TimePasses
    /\ UNCHANGED <<concVars, aliasVars, srvVars>>

SpecTick == Init /\ [][NextTick]_vars

\* movement: the store's operations with every direction, on a map with a wall
InitMove == InitOn(MoveMaps)

NextMove ==
    /\ \/ \E playerID \in PlayerIDs \ DOMAIN players, username \in Usernames,
             startX, startY \in MoveStartCoords :
             AddPlayer(playerID, username, startX, startY)
       \/ \E playerID \in PlayerIDs : RemovePlayer(playerID)
       \/ \E playerID \in PlayerIDs, direction \in Directions :
             ApplyInput(playerID, direction)
    /\ UNCHANGED <<concVars, aliasVars, srvVars>>

SpecMove == InitMove /\ [][NextMove]_vars

\* the store with UpdatePlayerDirection called with any direction, and time
\* passing
NextStore ==
    /\ \/ \E playerID \in PlayerIDs \ DOMAIN players, username \in Usernames,
             startX, startY \in StartCoords :
             AddPlayer(playerID, username, startX, startY)
       \/ \E playerID \in PlayerIDs : RemovePlayer(playerID)
       \/ \E playerID \in PlayerIDs, direction \in InputDirections :
             ApplyInput(playerID, direction)
       \/ \E playerID \in PlayerIDs, dir \in Directions :
             UpdatePlayerDirection(playerID, dir)
       \/ TimePasses
    /\ UNCHANGED <<concVars, aliasVars, srvVars>>

SpecStore == Init /\ [][NextStore]_vars

-----------------------------------------------------------------------------
(* The receive loop of a connection handler, one PlayerInput message at a  *)
(* time: ApplyInput for the handler's player id, then broadcastDeltaState  *)
(* if the input was applied, then the next Recv.  The id is any id, live   *)
(* or not.                                                                 *)

\* the handler goes back to Recv without a broadcast
HandlerBroadcastsNever(ok) == FALSE

\* the handler broadcasts whatever ApplyInput returned
HandlerBroadcastsAlways(ok) == TRUE

\* if ok { s.broadcastDeltaState() }
HandlerBroadcasts(ok) == ok

\* the handler of playerID receives a PlayerInput with direction, no other
\* goroutine running meanwhile
HandlePlayerInput(playerID, direction) ==
    LET ok == playerID \in DOMAIN players
        applied == IF ok THEN ApplyInputPlayers(players, playerID, direction) ELSE players
    IN /\ players' = applied
       /\ IF HandlerBroadcasts(ok)
          THEN \E order \in Orders(DOMAIN applied),
                  lastOrder \in Orders(DOMAIN lastBroadcastPlayers) :
                  LET r == GenerateDeltaUpdateResult(applied, lastBroadcastPlayers,
                                                     order, lastOrder)
                  IN /\ lastBroadcastPlayers' = r.lastBroadcastPlayers
                     /\ ret' = [op |-> "HandlePlayerInput", id |-> playerID, ok |-> ok,
                                generated |-> TRUE, delta |-> r.delta,
                                changed |-> r.changed, next |-> "Recv"]
                     /\ sinceDelta' = NoEvents
                     /\ cleanSinceDelta' = TRUE
          ELSE /\ ret' = [op |-> "HandlePlayerInput", id |-> playerID, ok |-> ok,
                          generated |-> FALSE, next |-> "Recv"]
               /\ cleanSinceDelta' = (cleanSinceDelta /\ players' = players)
               /\ UNCHANGED <<lastBroadcastPlayers, sinceDelta>>
       /\ UNCHANGED <<worldMap, liveIds>>

NextHandle ==
    /\ \/ \E playerID \in PlayerIDs \ DOMAIN players, username \in Usernames,
             startX, startY \in StartCoords :
             AddPlayer(playerID, username, startX, startY)
       \/ \E playerID \in PlayerIDs : RemovePlayer(playerID)
       \/ \E playerID \in PlayerIDs, direction \in InputDirections :
             HandlePlayerInput(playerID, direction)
    /\ UNCHANGED <<concVars, aliasVars, srvVars>>

SpecHandle == Init /\ [][NextHandle]_vars

-----------------------------------------------------------------------------
(* Goroutines inside the store: each connection's goroutine calls          *)
(* ApplyInput for its own player and one goroutine calls                   *)
(* GenerateDeltaUpdate.  A method is a sequence of steps: Lock, the reads  *)
(* of the store, the writes to it, Unlock.                                 *)

\* the calls each goroutine makes
MaxInputs == 1
\* the inputs of the concurrent runs: moves along one row
ConcDirections == {"UNKNOWN", "LEFT", "RIGHT"}
\* start coordinates of the two players: they start on the same spot, touching,
\* one step from touching or further apart
ConcStartCoords == {64, 80, 208, 224}
ConcStartY == 100

\* s.mu.Lock() returns only while no goroutine holds the lock
CanLockAlways(holder) == TRUE

CanLock(holder) == holder = NoHolder

\* the stores the goroutines start from: both players live, at rest
ConcStartStores ==
    {[id \in PlayerIDs |->
        AddPlayerPlayers(EmptyMap, id, "AnonPlayer", xs[id], ConcStartY)[id]] :
     xs \in [PlayerIDs -> ConcStartCoords]}

InitConc ==
    /\ worldMap = MapWalled
    /\ players \in ConcStartStores
    /\ lastBroadcastPlayers = [id \in DOMAIN players |-> players[id].PlayerData]
    /\ ret = [op |-> "NewState"]
    /\ liveIds = PlayerIDs
    /\ sinceDelta = NoEvents
    /\ cleanSinceDelta = TRUE
    /\ mu = NoHolder
    /\ calls = IdleCalls
    /\ concHist = [start |-> players, inputs |-> [t \in PlayerIDs |-> << >>]]
    /\ held = NoRecord
    /\ NoConnections

\* the goroutine of connection t calls ApplyInput(t, direction)
ConcApplyInputCall(t, direction) ==
    /\ calls[t].pc = "idle"
    /\ calls[t].count < MaxInputs
    /\ calls' = [calls EXCEPT ![t] = [pc |-> "lock", count |-> @.count,
                                      op |-> "ApplyInput", direction |-> direction]]
    /\ concHist' = [concHist EXCEPT !.inputs[t] = Append(@, direction)]
    /\ UNCHANGED <<worldMap, players, lastBroadcastPlayers, ret, liveIds, sinceDelta,
                   cleanSinceDelta, mu>>

\* the broadcaster calls GenerateDeltaUpdate()
ConcGenerateDeltaUpdateCall ==
    /\ calls[Broadcaster].pc = "idle"
    /\ calls[Broadcaster].count < MaxInputs
    /\ calls' = [calls EXCEPT ![Broadcaster] = [pc |-> "lock", count |-> @.count,
                                                op |-> "GenerateDeltaUpdate"]]
    /\ UNCHANGED <<worldMap, players, lastBroadcastPlayers, ret, liveIds, sinceDelta,
                   cleanSinceDelta, mu, concHist>>

\* s.mu.Lock()
ConcLock(t) ==
    /\ calls[t].pc = "lock"
    /\ CanLock(mu)
    /\ mu' = t
    /\ calls' = [calls EXCEPT ![t].pc = "locked"]
    /\ UNCHANGED <<worldMap, players, lastBroadcastPlayers, ret, liveIds, sinceDelta,
                   cleanSinceDelta, concHist>>

\* ApplyInput up to the decision canMove: the lookup, the writes of
\* LastInputTime and LastDirection, the reads of every player's position
ConcApplyInputLookup(t) ==
    /\ calls[t].pc = "locked"
    /\ calls[t].op = "ApplyInput"
    /\ IF t \notin DOMAIN players
       THEN /\ calls' = [calls EXCEPT ![t] = [pc |-> "unlock", count |-> @.count,
                                              op |-> @.op, ok |-> FALSE]]
            /\ players' = players
       ELSE LET direction == calls[t].direction
                potential == PotentialPosition(players[t].PlayerData.XPos,
                                               players[t].PlayerData.YPos, direction)
                canMove == /\ direction # UNKNOWN
                           /\ CanMove(players, t, potential[1], potential[2])
            IN /\ players' = [players EXCEPT ![t].SinceLastInput = 0,
                                             ![t].LastDirection = direction]
               /\ calls' = [calls EXCEPT ![t] = [pc |-> "write", count |-> @.count,
                                                 op |-> @.op, direction |-> direction,
                                                 potential |-> potential,
                                                 canMove |-> canMove, ok |-> TRUE]]
    /\ UNCHANGED <<worldMap, lastBroadcastPlayers, ret, liveIds, sinceDelta,
                   cleanSinceDelta, mu, concHist>>

\* ApplyInput from the decision on: the writes of the position and of the
\* animation state
ConcApplyInputWrite(t) ==
    /\ calls[t].pc = "write"
    /\ LET c == calls[t]
       IN players' = [players EXCEPT ![t].PlayerData =
              [@ EXCEPT !.XPos = IF c.canMove THEN c.potential[1] ELSE @,
                        !.YPos = IF c.canMove THEN c.potential[2] ELSE @,
                        !.CurrentAnimationState =
                            IF c.canMove \/ c.direction # UNKNOWN
                            THEN AnimationFor(c.direction) ELSE "IDLE"]]
    /\ calls' = [calls EXCEPT ![t].pc = "unlock"]
    /\ UNCHANGED <<worldMap, lastBroadcastPlayers, ret, liveIds, sinceDelta,
                   cleanSinceDelta, mu, concHist>>

\* GenerateDeltaUpdate up to the test of changed: the two range loops
ConcGenerateDeltaUpdateScan ==
    /\ calls[Broadcaster].pc = "locked"
    /\ calls[Broadcaster].op = "GenerateDeltaUpdate"
    /\ \E order \in Orders(DOMAIN players),
          lastOrder \in Orders(DOMAIN lastBroadcastPlayers) :
          calls' = [calls EXCEPT ![Broadcaster] =
                       [pc |-> "save", count |-> @.count, op |-> @.op,
                        last |-> lastBroadcastPlayers,
                        result |-> GenerateDeltaUpdateResult(
                                       players, lastBroadcastPlayers, order, lastOrder)]]
    /\ UNCHANGED <<worldMap, players, lastBroadcastPlayers, ret, liveIds, sinceDelta,
                   cleanSinceDelta, mu, concHist>>

\* GenerateDeltaUpdate from the test of changed on: the snapshot is replaced
ConcGenerateDeltaUpdateSave ==
    /\ calls[Broadcaster].pc = "save"
    /\ lastBroadcastPlayers' =
           IF calls[Broadcaster].result.changed
           THEN calls[Broadcaster].result.lastBroadcastPlayers
           ELSE lastBroadcastPlayers
    /\ calls' = [calls EXCEPT ![Broadcaster] =
                    [pc |-> "unlock", count |-> @.count, op |-> @.op,
                     delta |-> @.result.delta, changed |-> @.result.changed, ok |-> TRUE]]
    /\ UNCHANGED <<worldMap, players, ret, liveIds, sinceDelta, cleanSinceDelta, mu,
                   concHist>>

\* the deferred s.mu.Unlock() and the return
ConcUnlock(t) ==
    /\ calls[t].pc = "unlock"
    /\ mu' = NoHolder
    /\ ret' = IF calls[t].op = "ApplyInput"
              THEN [op |-> "ApplyInput", id |-> t, ok |-> calls[t].ok]
              ELSE IF calls[t].op = "GenerateDeltaUpdate"
              THEN [op |-> "GenerateDeltaUpdate", delta |-> calls[t].delta,
                    changed |-> calls[t].changed]
              ELSE [op |-> calls[t].op, id |-> calls[t].id, ok |-> calls[t].ok]
    /\ calls' = [calls EXCEPT ![t] = [pc |-> "idle", count |-> @.count + 1,
                                      failed |-> ~calls[t].ok]]
    /\ UNCHANGED <<worldMap, players, lastBroadcastPlayers, liveIds, sinceDelta,
                   cleanSinceDelta, concHist>>

NextConc ==
    /\ \/ \E t \in PlayerIDs, direction \in ConcDirections : ConcApplyInputCall(t, direction)
       \/ ConcGenerateDeltaUpdateCall
       \/ \E t \in Goroutines : ConcLock(t)
       \/ \E t \in PlayerIDs : ConcApplyInputLookup(t)
       \/ \E t \in PlayerIDs : ConcApplyInputWrite(t)
       \/ ConcGenerateDeltaUpdateScan
       \/ ConcGenerateDeltaUpdateSave
       \/ \E t \in Goroutines : ConcUnlock(t)
    /\ UNCHANGED <<aliasVars, srvVars>>

SpecConc == InitConc /\ [][NextConc]_vars

-----------------------------------------------------------------------------
(* GenerateDeltaUpdate, loop by loop, among goroutines that call AddPlayer, *)
(* RemovePlayer, ApplyInput and UpdatePlayerDirection.                      *)

\* the goroutine of the ticker, which calls UpdatePlayerDirection
Ticker == "ticker"
AtomicGoroutines == Goroutines \cup {Ticker}
\* the methods a connection's goroutine calls besides ApplyInput
ConnectionMethods == {"AddPlayer", "RemovePlayer"}

\* the inputs the connections send
AtomicDirections == {"UNKNOWN", "RIGHT"}
\* the start coordinate of the players that are live at the start
AtomicStartCoords == {64}

\* the stores the goroutines start from: each player absent or live at rest
AtomicStartStores ==
    {[id \in ids |->
        AddPlayerPlayers(EmptyMap, id, "AnonPlayer", x, ConcStartY)[id]] :
     ids \in SUBSET PlayerIDs, x \in AtomicStartCoords}

InitAtomic ==
    /\ worldMap = MapWalled
    /\ players \in AtomicStartStores
    /\ lastBroadcastPlayers = [id \in DOMAIN players |-> players[id].PlayerData]
    /\ ret = [op |-> "NewState"]
    /\ liveIds = DOMAIN players
    /\ sinceDelta = NoEvents
    /\ cleanSinceDelta = TRUE
    /\ mu = NoHolder
    /\ calls = [t \in AtomicGoroutines |-> [pc |-> "idle", count |-> 0]]
    /\ concHist = NoHistory
    /\ held = NoRecord
    /\ NoConnections

\* the goroutine of connection t calls AddPlayer(t, ...) or RemovePlayer(t)
ConcStoreCall(t, method) ==
    /\ calls[t].pc = "idle"
    /\ calls[t].count < MaxInputs
    /\ calls' = [calls EXCEPT ![t] = [pc |-> "lock", count |-> @.count,
                                      op |-> method, id |-> t]]
    /\ UNCHANGED <<worldMap, players, lastBroadcastPlayers, ret, liveIds, sinceDelta,
                   cleanSinceDelta, mu, concHist>>

\* the ticker calls UpdatePlayerDirection(playerID, UNKNOWN)
ConcUpdatePlayerDirectionCall(playerID) ==
    /\ calls[Ticker].pc = "idle"
    /\ calls[Ticker].count < MaxInputs
    /\ calls' = [calls EXCEPT ![Ticker] = [pc |-> "lock", count |-> @.count,
                                           op |-> "UpdatePlayerDirection",
                                           id |-> playerID]]
    /\ UNCHANGED <<worldMap, players, lastBroadcastPlayers, ret, liveIds, sinceDelta,
                   cleanSinceDelta, mu, concHist>>

\* the body of AddPlayer, RemovePlayer or UpdatePlayerDirection
ConcStoreBody(t) ==
    /\ calls[t].pc = "locked"
    /\ calls[t].op \in ConnectionMethods \cup {"UpdatePlayerDirection"}
    /\ LET c == calls[t]
       IN /\ players' =
                 IF c.op = "AddPlayer"
                 THEN AddPlayerPlayers(players, c.id, "AnonPlayer", ConcStartY, ConcStartY)
                 ELSE IF c.op = "RemovePlayer"
                 THEN RemovePlayerPlayers(players, c.id)
                 ELSE UpdatePlayerDirectionPlayers(players, c.id, UNKNOWN)
          /\ calls' = [calls EXCEPT ![t] =
                 [pc |-> "unlock", count |-> c.count, op |-> c.op, id |-> c.id,
                  ok |-> IF c.op = "UpdatePlayerDirection"
                         THEN UpdatePlayerDirectionChanged(players, c.id, UNKNOWN)
                         ELSE TRUE]]
          /\ liveIds' = IF c.op = "AddPlayer" THEN liveIds \cup {c.id}
                        ELSE IF c.op = "RemovePlayer" THEN liveIds \ {c.id}
                        ELSE liveIds
    /\ UNCHANGED <<worldMap, lastBroadcastPlayers, ret, sinceDelta, cleanSinceDelta, mu,
                   concHist>>

\* the first loop of GenerateDeltaUpdate: the clones of the players, and
\* those new or different
ConcGenerateDeltaUpdateUpdated ==
    /\ calls[Broadcaster].pc = "locked"
    /\ calls[Broadcaster].op = "GenerateDeltaUpdate"
    /\ \E order \in Orders(DOMAIN players) :
          LET clones == [i \in 1..Len(order) |-> players[order[i]].PlayerData]
          IN calls' = [calls EXCEPT ![Broadcaster] =
                 [pc |-> "removed", count |-> @.count, op |-> @.op,
                  currentPlayerStateSnapshot |->
                      [id \in DOMAIN players |-> players[id].PlayerData],
                  UpdatedPlayers |->
                      SelectSeq(clones, LAMBDA p : \/ p.Id \notin DOMAIN lastBroadcastPlayers
                                                   \/ lastBroadcastPlayers[p.Id] # p)]]
    /\ UNCHANGED <<worldMap, players, lastBroadcastPlayers, ret, liveIds, sinceDelta,
                   cleanSinceDelta, mu, concHist>>

\* the second loop of GenerateDeltaUpdate: the snapshot's ids no longer in
\* the map
ConcGenerateDeltaUpdateRemoved ==
    /\ calls[Broadcaster].pc = "removed"
    /\ \E lastOrder \in Orders(DOMAIN lastBroadcastPlayers) :
          LET c == calls[Broadcaster]
              RemovedPlayerIds == SelectSeq(lastOrder, LAMBDA id : id \notin DOMAIN players)
              changed == Len(c.UpdatedPlayers) > 0 \/ Len(RemovedPlayerIds) > 0
          IN calls' = [calls EXCEPT ![Broadcaster] =
                 [pc |-> "save", count |-> c.count, op |-> c.op,
                  last |-> lastBroadcastPlayers,
                  result |-> [delta |-> [UpdatedPlayers |-> c.UpdatedPlayers,
                                         RemovedPlayerIds |-> RemovedPlayerIds],
                              changed |-> changed,
                              lastBroadcastPlayers |->
                                  IF changed THEN c.currentPlayerStateSnapshot
                                  ELSE lastBroadcastPlayers]]]
    /\ UNCHANGED <<worldMap, players, lastBroadcastPlayers, ret, liveIds, sinceDelta,
                   cleanSinceDelta, mu, concHist>>

NextAtomic ==
    /\ \/ \E t \in PlayerIDs, method \in ConnectionMethods : ConcStoreCall(t, method)
       \/ \E t \in PlayerIDs, direction \in AtomicDirections :
             ConcApplyInputCall(t, direction)
       \/ \E playerID \in PlayerIDs : ConcUpdatePlayerDirectionCall(playerID)
       \/ ConcGenerateDeltaUpdateCall
       \/ \E t \in AtomicGoroutines : ConcLock(t)
       \/ \E t \in AtomicGoroutines : ConcStoreBody(t)
       \/ \E t \in PlayerIDs : ConcApplyInputLookup(t)
       \/ \E t \in PlayerIDs : ConcApplyInputWrite(t)
       \/ ConcGenerateDeltaUpdateUpdated
       \/ ConcGenerateDeltaUpdateRemoved
       \/ ConcGenerateDeltaUpdateSave
       \/ \E t \in AtomicGoroutines : ConcUnlock(t)
    /\ UNCHANGED <<aliasVars, srvVars>>

SpecAtomic == InitAtomic /\ [][NextAtomic]_vars

-----------------------------------------------------------------------------
(* gameTick call by call, among the handlers' calls.  The ticker's         *)
(* goroutine takes the ids, and for each id fetches the tracked player,    *)
(* reads its LastDirection and LastInputTime, and calls                    *)
(* UpdatePlayerDirection if the player is moving and timed out; each of    *)
(* these calls takes and releases State.mu on its own, and the handlers'   *)
(* calls come in between.                                                  *)

\* the ticker outside gameTick
TickerIdle == [pc |-> "idle", playerIds |-> << >>, stateChangedDuringTick |-> FALSE,
               reset |-> {}]

InitSweep ==
    /\ worldMap \in Maps
    /\ players = EmptyMap
    /\ lastBroadcastPlayers = EmptyMap
    /\ ret = [op |-> "NewState"]
    /\ liveIds = {}
    /\ sinceDelta = NoEvents
    /\ cleanSinceDelta = FALSE
    /\ mu = NoHolder
    /\ calls = [t \in {Ticker} |-> TickerIdle]
    /\ concHist = NoHistory
    /\ held = NoRecord
    /\ NoConnections

\* playerIds := s.state.GetAllPlayerIDs()
TickGetAllPlayerIDs ==
    /\ calls[Ticker].pc = "idle"
    /\ \E order \in Orders(DOMAIN players) :
          /\ calls' = [calls EXCEPT ![Ticker] =
                          [pc |-> "sweep", playerIds |-> order,
                           stateChangedDuringTick |-> FALSE, reset |-> {}]]
          /\ ret' = [op |-> "GetAllPlayerIDs", ids |-> order]
    /\ UNCHANGED <<worldMap, players, lastBroadcastPlayers, liveIds, sinceDelta,
                   cleanSinceDelta>>

\* one turn of the loop up to the test: GetTrackedPlayer, then isMoving and
\* inputTimedOut read from the record it returned
TickGetTrackedPlayer ==
    /\ calls[Ticker].pc = "sweep"
    /\ calls[Ticker].playerIds # << >>
    /\ LET playerID == Head(calls[Ticker].playerIds)
           exists == playerID \in DOMAIN players
           isMoving == players[playerID].LastDirection # UNKNOWN
           inputTimedOut == players[playerID].SinceLastInput > movementTimeout
       IN /\ calls' = [calls EXCEPT ![Ticker] =
                 IF exists /\ isMoving /\ inputTimedOut
                 THEN [@ EXCEPT !.pc = "update"]
                 ELSE [@ EXCEPT !.playerIds = Tail(@)]]
          /\ ret' = [op |-> "GetTrackedPlayer", id |-> playerID, exists |-> exists]
    /\ UNCHANGED <<worldMap, players, lastBroadcastPlayers, liveIds, sinceDelta,
                   cleanSinceDelta>>

\* updated := s.state.UpdatePlayerDirection(playerID, UNKNOWN), to the end of
\* the turn of the loop
TickUpdatePlayerDirection ==
    /\ calls[Ticker].pc = "update"
    /\ LET playerID == Head(calls[Ticker].playerIds)
           updated == UpdatePlayerDirectionChanged(players, playerID, UNKNOWN)
       IN /\ players' = UpdatePlayerDirectionPlayers(players, playerID, UNKNOWN)
          /\ calls' = [calls EXCEPT ![Ticker] =
                 [pc |-> "sweep", playerIds |-> Tail(@.playerIds),
                  stateChangedDuringTick |-> @.stateChangedDuringTick \/ updated,
                  reset |-> IF updated THEN @.reset \cup {playerID} ELSE @.reset]]
          /\ ret' = [op |-> "UpdatePlayerDirection", id |-> playerID,
                     changed |-> updated]
    /\ cleanSinceDelta' = (cleanSinceDelta /\ players' = players)
    /\ UNCHANGED <<worldMap, lastBroadcastPlayers, liveIds, sinceDelta>>

\* after the loop: broadcastDeltaState (GenerateDeltaUpdate) if a direction
\* was reset
TickBroadcast ==
    /\ calls[Ticker].pc = "sweep"
    /\ calls[Ticker].playerIds = << >>
    /\ calls' = [calls EXCEPT ![Ticker] = TickerIdle]
    /\ IF calls[Ticker].stateChangedDuringTick
       THEN \E order \in Orders(DOMAIN players),
               lastOrder \in Orders(DOMAIN lastBroadcastPlayers) :
               LET r == GenerateDeltaUpdateResult(players, lastBroadcastPlayers,
                                                  order, lastOrder)
               IN /\ lastBroadcastPlayers' = r.lastBroadcastPlayers
                  /\ ret' = [op |-> "gameTick", reset |-> calls[Ticker].reset,
                             generated |-> TRUE,
                             delta |-> r.delta, changed |-> r.changed,
                             events |-> sinceDelta]
                  /\ sinceDelta' = NoEvents
                  /\ cleanSinceDelta' = TRUE
       ELSE /\ ret' = [op |-> "gameTick", reset |-> {}, generated |-> FALSE]
            /\ UNCHANGED <<lastBroadcastPlayers, sinceDelta, cleanSinceDelta>>
    /\ UNCHANGED <<worldMap, players, liveIds>>

\* a step of the ticker's goroutine
TickStep ==
    \/ TickGetAllPlayerIDs
    \/ TickGetTrackedPlayer
    \/ TickUpdatePlayerDirection
    \/ TickBroadcast

\* a call of a handler, or tickRate milliseconds passing
SweepHandlerStep ==
    \/ \E playerID \in PlayerIDs \ DOMAIN players, username \in Usernames,
          start \in TickStartCoords :
          AddPlayer(playerID, username, start, start)
    \/ \E playerID \in PlayerIDs : RemovePlayer(playerID)
    \/ \E playerID \in PlayerIDs, direction \in TickDirections :
          ApplyInput(playerID, direction)
    \/ GenerateDeltaUpdate
    \/ TimePasses

NextSweep ==
    \/ TickStep /\ UNCHANGED <<mu, concHist, aliasVars, srvVars>>
    \/ SweepHandlerStep /\ UNCHANGED <<concVars, aliasVars, srvVars>>

SpecSweep == InitSweep /\ [][NextSweep]_vars

\* the ticker fires every tickRate and gameTick runs to its end; time passes
TickerNext == TickStep /\ UNCHANGED <<mu, concHist, aliasVars, srvVars>>
ClockNext == TimePasses /\ UNCHANGED <<concVars, aliasVars, srvVars>>

SpecSweepFair == SpecSweep /\ WF_vars(TickerNext) /\ WF_vars(ClockNext)

-----------------------------------------------------------------------------
(* The connection handler GameStream, the registry of streams and the      *)
(* broadcasts.  Each connection has a goroutine running GameStream, named  *)
(* by the id it assigns.  A call of the store is one step (every method    *)
(* holds State.mu for its body), an access to the registry is one step     *)
(* (each holds muStreams from its start to its end), and the goroutines    *)
(* run between the steps: between RemovePlayer and removeStream, between   *)
(* GenerateDeltaUpdate and the sends of the delta it returned.  An id is   *)
(* given to one connection.                                                *)

\* the direction the clients send
ServerDirections == {"UP"}
\* the start coordinates the handler passes to AddPlayer
HandlerStartCoord == 100

\* the handlers and the ticker
ServerGoroutines == PlayerIDs \cup {Ticker}
\* a delta with nothing in it
NoDelta == [UpdatedPlayers |-> << >>, RemovedPlayerIds |-> << >>]
\* a goroutine that has not started: its position, where it goes after
\* broadcastDeltaState, the delta it is about to send, and what its deferred
\* function has done
HandlerIdle == [pc |-> "idle", next |-> "idle", delta |-> NoDelta, done |-> << >>]

\* the messages the handler sends to its own client when it joins
JoinMessages == <<"map", "initial">>

\* a history of received messages that is not kept
NotKept == << >>

\* the history rcv, if it is kept, after the clients in ids received a
\* message of this kind; it keeps the first messages of a client, as many
\* as a join sends
Receive(rcv, ids, kind) ==
    IF DOMAIN rcv = {}
    THEN rcv
    ELSE [c \in PlayerIDs |->
             IF c \in ids /\ Len(rcv[c]) < Len(JoinMessages)
             THEN Append(rcv[c], kind)
             ELSE rcv[c]]

storeVars == <<worldMap, players, lastBroadcastPlayers, liveIds, sinceDelta, cleanSinceDelta>>

InitServer ==
    /\ worldMap \in Maps
    /\ players = EmptyMap
    /\ lastBroadcastPlayers = EmptyMap
    /\ ret = [op |-> "NewState"]
    /\ liveIds = {}
    /\ sinceDelta = NoEvents
    /\ cleanSinceDelta = FALSE
    /\ mu = NoHolder
    /\ calls = [t \in ServerGoroutines |-> HandlerIdle]
    /\ concHist = NoHistory
    /\ held = NoRecord
    /\ activeStreams = {}
    /\ streams = [id \in PlayerIDs |-> "none"]
    /\ delivered = [id \in PlayerIDs |-> {}]
    /\ received = NotKept
    /\ muStreams = NoHolder

\* the same start, the messages the clients receive being recorded
InitJoin ==
    /\ worldMap \in Maps
    /\ players = EmptyMap
    /\ lastBroadcastPlayers = EmptyMap
    /\ ret = [op |-> "NewState"]
    /\ liveIds = {}
    /\ sinceDelta = NoEvents
    /\ cleanSinceDelta = FALSE
    /\ mu = NoHolder
    /\ calls = [t \in ServerGoroutines |-> HandlerIdle]
    /\ concHist = NoHistory
    /\ held = NoRecord
    /\ NoConnections

\* what stream.Send can do on the stream of id: the client gets the message
\* while its stream is open; after the stream ended Send returns an error,
\* or returns nil for a message that reaches nobody
SendOutcomes(id) ==
    IF streams[id] = "open" THEN {"received"} ELSE {"lost", "failed"}

\* a client opens a stream and the server starts GameStream for it
Connect(playerID) ==
    /\ calls[playerID].pc = "idle"
    /\ streams[playerID] = "none"
    /\ streams' = [streams EXCEPT ![playerID] = "open"]
    /\ calls' = [calls EXCEPT ![playerID].pc = "hello"]
    /\ ret' = [op |-> "Connect", id |-> playerID]
    /\ UNCHANGED <<storeVars, activeStreams, delivered, received>>

\* the client closes its stream, or the connection breaks
ClientLeaves(playerID) ==
    /\ streams[playerID] = "open"
    /\ streams' = [streams EXCEPT ![playerID] = "ended"]
    /\ ret' = [op |-> "ClientLeaves", id |-> playerID]
    /\ UNCHANGED <<storeVars, calls, activeStreams, delivered, received>>

\* a GameStream that runs the deferred function after a failed first Recv
AfterHelloFailsRunsDeferred == "RemovePlayer"

\* where GameStream goes after a failed first Recv: it returns, and its
\* defer statement was not reached
AfterHelloFails == "returned"

\* the first Recv: the stream ended or the message is not a ClientHello, and
\* GameStream returns before its defer statement
GameStreamHelloFails(playerID) ==
    /\ calls[playerID].pc = "hello"
    /\ streams' = [streams EXCEPT ![playerID] = "ended"]
    /\ calls' = [calls EXCEPT ![playerID].pc = AfterHelloFails]
    /\ ret' = [op |-> "GameStream", id |-> playerID, joined |-> FALSE]
    /\ UNCHANGED <<storeVars, activeStreams, delivered, received>>

\* the first Recv gives a ClientHello: AddPlayer(playerID, username, 100, 100)
GameStreamHello(playerID, username) ==
    /\ calls[playerID].pc = "hello"
    /\ streams[playerID] = "open"
    /\ AddPlayer(playerID, username, HandlerStartCoord, HandlerStartCoord)
    /\ calls' = [calls EXCEPT ![playerID].pc = "addStream"]
    /\ UNCHANGED <<activeStreams, streams, delivered, received>>

addStream(playerID) ==
    /\ calls[playerID].pc = "addStream"
    /\ activeStreams' = activeStreams \cup {playerID}
    /\ calls' = [calls EXCEPT ![playerID].pc = "sendMap"]
    /\ ret' = [op |-> "addStream", id |-> playerID]
    /\ UNCHANGED <<storeVars, streams, delivered, received>>

\* the map is sent on the handler's own stream; a failed Send returns, and
\* the deferred function runs
GameStreamSendMap(playerID) ==
    /\ calls[playerID].pc = "sendMap"
    /\ \E outcome \in SendOutcomes(playerID) :
          /\ calls' = [calls EXCEPT ![playerID].pc =
                          IF outcome = "failed" THEN "RemovePlayer" ELSE "initialDelta"]
          /\ received' = Receive(received, IF outcome = "received" THEN {playerID} ELSE {},
                                  "map")
          /\ ret' = [op |-> "Send", id |-> playerID, outcome |-> outcome]
    /\ UNCHANGED <<storeVars, activeStreams, streams, delivered>>

\* GetInitialStateDelta and the Send of what it returned, on the handler's
\* own stream; then the handler is at its first broadcastDeltaState
GameStreamInitialState(playerID) ==
    /\ calls[playerID].pc = "initialDelta"
    /\ GetInitialStateDelta
    /\ \E outcome \in SendOutcomes(playerID) :
          LET sent == Len(ret'.delta.UpdatedPlayers) > 0
          IN /\ calls' = [calls EXCEPT ![playerID] =
                             IF sent /\ outcome = "failed"
                             THEN [@ EXCEPT !.pc = "RemovePlayer"]
                             ELSE [@ EXCEPT !.pc = "broadcast", !.next = "recv"]]
             /\ received' = Receive(received,
                                    IF sent /\ outcome = "received" THEN {playerID} ELSE {},
                                    "initial")
    /\ UNCHANGED <<activeStreams, streams, delivered>>

\* broadcastDeltaState up to its test: GenerateDeltaUpdate, and the return
\* if nothing changed
broadcastDeltaStateGenerate(t) ==
    /\ calls[t].pc = "broadcast"
    /\ GenerateDeltaUpdate
    /\ calls' = [calls EXCEPT ![t] =
                    [pc |-> IF ret'.changed THEN "send" ELSE @.next,
                     next |-> @.next,
                     delta |-> IF ret'.changed THEN ret'.delta ELSE NoDelta,
                     done |-> IF @.next = "returned"
                              THEN Append(@.done, "GenerateDeltaUpdate")
                              ELSE @.done]]
    /\ UNCHANGED <<activeStreams, streams, delivered, received>>

\* the rest of broadcastDeltaState, under muStreams: the delta is sent on
\* every registered stream and the streams whose Send failed are deleted
broadcastDeltaStateSend(t) ==
    /\ calls[t].pc = "send"
    /\ \E outcome \in [activeStreams -> {"received", "lost", "failed"}] :
          /\ \A id \in activeStreams : outcome[id] \in SendOutcomes(id)
          /\ LET deadStreams == {id \in activeStreams : outcome[id] = "failed"}
                 removed == SeqToSet(calls[t].delta.RemovedPlayerIds)
             IN /\ activeStreams' = activeStreams \ deadStreams
                /\ delivered' = [c \in PlayerIDs |->
                                    IF c \in activeStreams /\ outcome[c] = "received"
                                    THEN delivered[c] \cup removed
                                    ELSE delivered[c]]
                /\ received' = Receive(received,
                                       {c \in activeStreams : outcome[c] = "received"},
                                       "delta")
                /\ ret' = [op |-> "broadcastDeltaState", by |-> t,
                           deadStreams |-> deadStreams]
    /\ calls' = [calls EXCEPT ![t] = [@ EXCEPT !.pc = calls[t].next, !.delta = NoDelta]]
    /\ UNCHANGED <<storeVars, streams>>

\* Recv in the loop gives a PlayerInput: ApplyInput, and broadcastDeltaState
\* if it found the player
GameStreamRecvInput(playerID, direction) ==
    /\ calls[playerID].pc = "recv"
    /\ streams[playerID] = "open"
    /\ ApplyInput(playerID, direction)
    /\ calls' = [calls EXCEPT ![playerID] =
                    IF ret'.ok
                    THEN [@ EXCEPT !.pc = "broadcast", !.next = "recv"]
                    ELSE @]
    /\ UNCHANGED <<activeStreams, streams, delivered, received>>

\* the messages of the loop that are not a PlayerInput
OtherMessages == {"ClientHello", "unknown"}

\* a loop that returns on a message that is not a PlayerInput
OtherMessageEndsLoop(message) == "RemovePlayer"

\* where the handler goes after a message that is not a PlayerInput: it
\* logs it and stays in the loop
OtherMessageGoesTo(message) == "recv"

\* Recv in the loop gives a second ClientHello or a message with no known
\* payload
GameStreamRecvOther(playerID, message) ==
    /\ calls[playerID].pc = "recv"
    /\ streams[playerID] = "open"
    /\ calls' = [calls EXCEPT ![playerID].pc = OtherMessageGoesTo(message)]
    /\ ret' = [op |-> "Recv", id |-> playerID, message |-> message]
    /\ UNCHANGED <<storeVars, activeStreams, streams, delivered, received>>

\* Recv in the loop gives io.EOF or an error: GameStream returns, and the
\* deferred function runs
GameStreamRecvEnd(playerID) ==
    /\ calls[playerID].pc = "recv"
    /\ streams[playerID] = "ended"
    /\ calls' = [calls EXCEPT ![playerID].pc = "RemovePlayer"]
    /\ ret' = [op |-> "Recv", id |-> playerID, ended |-> TRUE]
    /\ UNCHANGED <<storeVars, activeStreams, streams, delivered, received>>

\* the deferred function: s.state.RemovePlayer(playerID)
GameStreamRemovePlayer(playerID) ==
    /\ calls[playerID].pc = "RemovePlayer"
    /\ RemovePlayer(playerID)
    /\ calls' = [calls EXCEPT ![playerID] =
                    [@ EXCEPT !.pc = "removeStream", !.done = <<"RemovePlayer">>]]
    /\ UNCHANGED <<activeStreams, streams, delivered, received>>

\* a deferred function that ends after removeStream
AfterRemoveStreamReturns == "returned"

\* where the deferred function goes after removeStream: to its
\* broadcastDeltaState
AfterRemoveStream == "broadcast"

\* the deferred function: s.removeStream(playerID)
removeStream(playerID) ==
    /\ calls[playerID].pc = "removeStream"
    /\ activeStreams' = activeStreams \ {playerID}
    /\ calls' = [calls EXCEPT ![playerID] =
                    [@ EXCEPT !.pc = AfterRemoveStream, !.next = "returned",
                              !.done = Append(@, "removeStream")]]
    /\ ret' = [op |-> "removeStream", id |-> playerID]
    /\ UNCHANGED <<storeVars, streams, delivered, received>>

\* gameTick reaches its broadcastDeltaState; the sweep before it writes no
\* Player record and no stream
TickBroadcastDeltaState ==
    /\ calls[Ticker].pc = "idle"
    /\ calls' = [calls EXCEPT ![Ticker] = [@ EXCEPT !.pc = "broadcast", !.next = "idle"]]
    /\ ret' = [op |-> "gameTick"]
    /\ UNCHANGED <<storeVars, activeStreams, streams, delivered, received>>

\* the steps a goroutine takes without waiting for a client
ServerProgress(t) ==
    \/ broadcastDeltaStateGenerate(t)
    \/ broadcastDeltaStateSend(t)
    \/ /\ t \in PlayerIDs
       /\ \/ addStream(t)
          \/ GameStreamSendMap(t)
          \/ GameStreamInitialState(t)
          \/ GameStreamRecvEnd(t)
          \/ GameStreamRemovePlayer(t)
          \/ removeStream(t)

\* the steps that wait for a client
ClientStep ==
    \/ \E playerID \in PlayerIDs : Connect(playerID)
    \/ \E playerID \in PlayerIDs : ClientLeaves(playerID)
    \/ \E playerID \in PlayerIDs : GameStreamHelloFails(playerID)
    \/ \E playerID \in PlayerIDs, username \in Usernames :
          GameStreamHello(playerID, username)
    \/ \E playerID \in PlayerIDs, direction \in ServerDirections :
          GameStreamRecvInput(playerID, direction)
    \/ \E playerID \in PlayerIDs, message \in OtherMessages :
          GameStreamRecvOther(playerID, message)

\* the steps that wait for a client or for the ticker
ServerEnvironment ==
    \/ ClientStep
    \/ TickBroadcastDeltaState

ServerStep(t) == ServerProgress(t) /\ UNCHANGED <<mu, muStreams, concHist, aliasVars>>

NextServer ==
    \/ \E t \in ServerGoroutines : ServerStep(t)
    \/ ServerEnvironment /\ UNCHANGED <<mu, muStreams, concHist, aliasVars>>

SpecServer == InitServer /\ [][NextServer]_vars

\* the handlers without the ticker
NextJoin ==
    \/ \E t \in PlayerIDs : ServerStep(t)
    \/ ClientStep /\ UNCHANGED <<mu, muStreams, concHist, aliasVars>>

\* the handlers with the record of what their clients receive
SpecJoin == InitJoin /\ [][NextJoin]_vars

\* every goroutine of the server that can take a step of its own takes one:
\* a Send returns, a lock is granted, a Recv on an ended stream returns
SpecServerFair == SpecServer /\ \A t \in ServerGoroutines : WF_vars(ServerStep(t))

-----------------------------------------------------------------------------
(* broadcastDeltaState lock by lock and Send by Send, run by the handlers  *)
(* (gameTick runs the same function).  GenerateDeltaUpdate holds State.mu from Lock to its *)
(* deferred Unlock; the rest holds muStreams from Lock to its deferred     *)
(* Unlock, and sends the delta on the registered streams one by one.       *)
(* Between the broadcasts a handler makes its calls of the store and of    *)
(* the registry, each under the lock it takes, in any order.               *)

\* a goroutine outside broadcastDeltaState: its position, what
\* GenerateDeltaUpdate returned, the registry when it took muStreams, the
\* streams the loop has still to visit, the Sends made, the dead streams
BroadcastIdle ==
    [pc |-> "idle", delta |-> NoDelta, changed |-> FALSE, registered |-> {},
     todo |-> << >>, attempts |-> << >>, deadStreams |-> << >>]

InitBroadcast ==
    /\ worldMap \in Maps
    /\ players = EmptyMap
    /\ lastBroadcastPlayers = EmptyMap
    /\ ret = [op |-> "NewState"]
    /\ liveIds = {}
    /\ sinceDelta = NoEvents
    /\ cleanSinceDelta = FALSE
    /\ mu = NoHolder
    /\ calls = [t \in PlayerIDs |-> BroadcastIdle]
    /\ concHist = NoHistory
    /\ held = NoRecord
    /\ NoConnections

\* a broadcastDeltaState that sends whatever GenerateDeltaUpdate returned
SendsDeltaAlways(changed) == TRUE

\* broadcastDeltaState goes on after GenerateDeltaUpdate: if !changed it returns
SendsDelta(changed) == changed

\* a GenerateDeltaUpdate that returns with State.mu held
HolderAfterGenerateDeltaUpdateKeeps(t) == t

\* the holder of State.mu after GenerateDeltaUpdate returned: its deferred
\* Unlock has run
HolderAfterGenerateDeltaUpdate(t) == NoHolder

\* a loop that ends at the first Send that fails
RestAfterSendStopsOnError(todo, outcome) ==
    IF outcome = "failed" THEN << >> ELSE Tail(todo)

\* the streams the loop has still to visit after a Send: an error is
\* recorded and the loop goes on
RestAfterSend(todo, outcome) == Tail(todo)

\* what broadcastDeltaState did, at its return
BroadcastReturn(t, locals) ==
    [op |-> "broadcastDeltaState", by |-> t, changed |-> locals.changed,
     delta |-> locals.delta, registered |-> locals.registered,
     attempts |-> locals.attempts, deadStreams |-> locals.deadStreams]

\* a goroutine calls broadcastDeltaState
ConcBroadcastCall(t) ==
    /\ calls[t].pc = "idle"
    /\ calls' = [calls EXCEPT ![t] = [BroadcastIdle EXCEPT !.pc = "generate"]]
    /\ ret' = [op |-> "call", by |-> t]
    /\ UNCHANGED <<storeVars, mu, srvVars>>

\* delta, changed := s.state.GenerateDeltaUpdate(), from its Lock to its
\* return statement
ConcBroadcastGenerate(t) ==
    /\ calls[t].pc = "generate"
    /\ CanLock(mu)
    /\ mu' = t
    /\ GenerateDeltaUpdate
    /\ calls' = [calls EXCEPT ![t] =
                    [@ EXCEPT !.pc = "generated", !.delta = ret'.delta,
                              !.changed = ret'.changed]]
    /\ UNCHANGED srvVars

\* GenerateDeltaUpdate returns, and the test of changed
ConcBroadcastTest(t) ==
    /\ calls[t].pc = "generated"
    /\ mu' = HolderAfterGenerateDeltaUpdate(t)
    /\ IF SendsDelta(calls[t].changed)
       THEN /\ calls' = [calls EXCEPT ![t].pc = "lockStreams"]
            /\ ret' = [op |-> "GenerateDeltaUpdate", by |-> t]
       ELSE /\ calls' = [calls EXCEPT ![t] = BroadcastIdle]
            /\ ret' = BroadcastReturn(t, calls[t])
    /\ UNCHANGED <<storeVars, srvVars>>

\* s.muStreams.Lock(), the test of an empty registry, and the start of the
\* range loop, which visits the streams in some order
ConcBroadcastLockStreams(t) ==
    /\ calls[t].pc = "lockStreams"
    /\ CanLock(muStreams)
    /\ muStreams' = t
    /\ \E order \in Orders(activeStreams) :
          calls' = [calls EXCEPT ![t] =
                       [@ EXCEPT !.pc = IF Len(order) = 0 THEN "unlockStreams" ELSE "loop",
                                 !.registered = activeStreams,
                                 !.todo = order]]
    /\ ret' = [op |-> "Lock", by |-> t]
    /\ UNCHANGED <<storeVars, mu, activeStreams, streams, delivered, received>>

\* one turn of the loop: stream.Send(deltaMessage), and the append to
\* deadStreams if it failed
ConcBroadcastSend(t) ==
    /\ calls[t].pc = "loop"
    /\ calls[t].todo # << >>
    /\ LET id == Head(calls[t].todo)
       IN \E outcome \in SendOutcomes(id) :
             /\ calls' = [calls EXCEPT ![t] =
                   [@ EXCEPT !.todo = RestAfterSend(calls[t].todo, outcome),
                             !.attempts = Append(@, [id |-> id,
                                                     message |-> calls[t].delta,
                                                     outcome |-> outcome]),
                             !.deadStreams = IF outcome = "failed"
                                             THEN Append(@, id)
                                             ELSE @]]
             /\ ret' = [op |-> "Send", by |-> t, id |-> id, outcome |-> outcome]
    /\ UNCHANGED <<storeVars, mu, srvVars>>

\* after the loop: the dead streams are deleted from the registry
ConcBroadcastDeleteDead(t) ==
    /\ calls[t].pc = "loop"
    /\ calls[t].todo = << >>
    /\ activeStreams' = activeStreams \ SeqToSet(calls[t].deadStreams)
    /\ calls' = [calls EXCEPT ![t].pc = "unlockStreams"]
    /\ ret' = [op |-> "delete", by |-> t]
    /\ UNCHANGED <<storeVars, mu, muStreams, streams, delivered, received>>

\* the deferred s.muStreams.Unlock(), and the return
ConcBroadcastUnlockStreams(t) ==
    /\ calls[t].pc = "unlockStreams"
    /\ muStreams' = NoHolder
    /\ calls' = [calls EXCEPT ![t] = BroadcastIdle]
    /\ ret' = BroadcastReturn(t, calls[t])
    /\ UNCHANGED <<storeVars, mu, activeStreams, streams, delivered, received>>

\* a step of broadcastDeltaState run by goroutine t
ConcBroadcastStep(t) ==
    \/ ConcBroadcastGenerate(t)
    \/ ConcBroadcastTest(t)
    \/ ConcBroadcastLockStreams(t)
    \/ ConcBroadcastSend(t)
    \/ ConcBroadcastDeleteDead(t)
    \/ ConcBroadcastUnlockStreams(t)

\* the handler of a new connection got its ClientHello: AddPlayer
ConcJoin(playerID) ==
    /\ calls[playerID].pc = "idle"
    /\ streams[playerID] = "none"
    /\ CanLock(mu)
    /\ AddPlayer(playerID, "AnonPlayer", HandlerStartCoord, HandlerStartCoord)
    /\ streams' = [streams EXCEPT ![playerID] = "open"]
    /\ UNCHANGED <<mu, calls, activeStreams, delivered, received, muStreams>>

\* a handler's call of ApplyInput or RemovePlayer
ConcStoreOperation(playerID) ==
    /\ calls[playerID].pc = "idle"
    /\ playerID \in DOMAIN players
    /\ CanLock(mu)
    /\ \/ \E direction \in ServerDirections : ApplyInput(playerID, direction)
       \/ RemovePlayer(playerID)
    /\ UNCHANGED <<mu, calls, srvVars>>

\* a handler's call of addStream or removeStream
ConcRegistryOperation(playerID) ==
    /\ calls[playerID].pc = "idle"
    /\ streams[playerID] # "none"
    /\ CanLock(muStreams)
    /\ \/ /\ playerID \notin activeStreams
          /\ activeStreams' = activeStreams \cup {playerID}
          /\ ret' = [op |-> "addStream", id |-> playerID]
       \/ /\ playerID \in activeStreams
          /\ activeStreams' = activeStreams \ {playerID}
          /\ ret' = [op |-> "removeStream", id |-> playerID]
    /\ UNCHANGED <<storeVars, mu, calls, streams, delivered, received, muStreams>>

NextBroadcast ==
    /\ \/ \E t \in PlayerIDs : ConcBroadcastCall(t)
       \/ \E t \in PlayerIDs : ConcBroadcastStep(t)
       \/ \E playerID \in PlayerIDs : ConcJoin(playerID)
       \/ \E playerID \in PlayerIDs : ConcStoreOperation(playerID)
       \/ \E playerID \in PlayerIDs : ConcRegistryOperation(playerID)
       \/ \E playerID \in PlayerIDs : ClientLeaves(playerID) /\ UNCHANGED <<mu, muStreams>>
    /\ UNCHANGED <<concHist, aliasVars>>

SpecBroadcast == InitBroadcast /\ [][NextBroadcast]_vars

\* a goroutine inside broadcastDeltaState goes on: a lock is granted, a
\* Send returns
ConcBroadcastNext(t) == ConcBroadcastStep(t) /\ UNCHANGED <<concHist, aliasVars>>

SpecBroadcastFair == SpecBroadcast /\ \A t \in PlayerIDs : WF_vars(ConcBroadcastNext(t))

\* the collision tests called on their own, with boxes inside the map, on
\* its edges and beyond them, next to players placed by AddPlayer
CollisionMaps == Maps \cup MoveMaps
CollisionStartCoords == {64, 96, 192}
CollisionXs == {31, 63, 64, 192, 193, 224, 225}
CollisionYs == {31, 63, 64, 96, 97}

InitCollision == InitOn(CollisionMaps)

CallCheckMapCollision(centerX, centerY) ==
    /\ ret' = [op |-> "checkMapCollision", centerX |-> centerX, centerY |-> centerY,
               collides |-> checkMapCollision(centerX, centerY)]
    /\ UNCHANGED storeVars

CallCheckPlayerCollision(playerID, potentialX, potentialY) ==
    /\ ret' = [op |-> "checkPlayerCollision", id |-> playerID,
               potentialX |-> potentialX, potentialY |-> potentialY,
               collides |-> checkPlayerCollision(players, playerID, potentialX, potentialY)]
    /\ UNCHANGED storeVars

NextCollision ==
    /\ \/ \E playerID \in PlayerIDs \ DOMAIN players, username \in Usernames,
             startX, startY \in CollisionStartCoords :
             AddPlayer(playerID, username, startX, startY)
       \/ \E playerID \in PlayerIDs : RemovePlayer(playerID)
       \/ \E centerX \in CollisionXs, centerY \in CollisionYs :
             CallCheckMapCollision(centerX, centerY)
       \/ \E playerID \in PlayerIDs, potentialX \in CollisionXs, potentialY \in CollisionYs :
             CallCheckPlayerCollision(playerID, potentialX, potentialY)
    /\ UNCHANGED <<concVars, aliasVars, srvVars>>

SpecCollision == InitCollision /\ [][NextCollision]_vars

-----------------------------------------------------------------------------
(* Records handed to callers.  AddPlayer returns playerData, the pointer   *)
(* it stored in the map, and GetTrackedPlayer returns the map's            *)
(* *trackedPlayer: the caller holds the store's own object.  ApplyInput    *)
(* and GetAllPlayers return the address of a fresh copy.  A held record    *)
(* is attached while it is the object the map holds under its id.          *)

\* the coordinate a caller writes into a record it holds
WrittenCoords == {0}

\* what a held object contains when the store is ps
HeldContent(h, ps) == IF h.kind = "player" THEN ps[h.id].PlayerData ELSE ps[h.id]

\* the held record after the store changed to ps: an attached record is the
\* store's object
Track(h, ps) ==
    IF h.op # "none" /\ h.attached /\ h.id \in DOMAIN ps
    THEN [h EXCEPT !.value = HeldContent(h, ps)]
    ELSE h

\* the held record after playerID was deleted from the map
Detach(h, playerID) ==
    IF h.op # "none" /\ h.id = playerID THEN [h EXCEPT !.attached = FALSE] ELSE h

\* AddPlayer, the caller keeping what it returns
AliasAddPlayer(playerID, username, startX, startY) ==
    /\ AddPlayer(playerID, username, startX, startY)
    /\ held' = [op |-> "AddPlayer", kind |-> "player", id |-> playerID,
                attached |-> TRUE, value |-> players'[playerID].PlayerData]

\* ApplyInput on a live player, the caller keeping what it returns
AliasApplyInput(playerID, direction) ==
    /\ playerID \in DOMAIN players
    /\ ApplyInput(playerID, direction)
    /\ held' = [op |-> "ApplyInput", kind |-> "player", id |-> playerID,
                attached |-> FALSE, value |-> players'[playerID].PlayerData]

\* GetAllPlayers, the caller keeping one record of the list
AliasGetAllPlayers ==
    \E order \in Orders(DOMAIN players) : \E i \in 1..Len(order) :
        /\ ret' = [op |-> "GetAllPlayers", players |-> GetAllPlayersResult(players, order)]
        /\ held' = [op |-> "GetAllPlayers", kind |-> "player", id |-> order[i],
                    attached |-> FALSE, value |-> GetAllPlayersResult(players, order)[i]]
        /\ UNCHANGED <<worldMap, players, lastBroadcastPlayers, liveIds, sinceDelta,
                       cleanSinceDelta>>

\* GetTrackedPlayer, the caller keeping what it returns
AliasGetTrackedPlayer(playerID) ==
    /\ ret' = [op |-> "GetTrackedPlayer", id |-> playerID,
               exists |-> playerID \in DOMAIN players]
    /\ held' = IF playerID \in DOMAIN players
               THEN [op |-> "GetTrackedPlayer", kind |-> "tracked", id |-> playerID,
                     attached |-> TRUE, value |-> players[playerID]]
               ELSE NoRecord
    /\ UNCHANGED <<worldMap, players, lastBroadcastPlayers, liveIds, sinceDelta,
                   cleanSinceDelta>>

\* ApplyInput by another caller while the record is held
AliasStoreApplyInput(playerID, direction) ==
    /\ ApplyInput(playerID, direction)
    /\ held' = Track(held, players')

\* RemovePlayer while the record is held
AliasStoreRemovePlayer(playerID) ==
    /\ RemovePlayer(playerID)
    /\ held' = Detach(held, playerID)

\* the caller writes the x coordinate of the record it holds
AliasCallerWrites(x) ==
    /\ held.op # "none"
    /\ LET written == IF held.kind = "player"
                      THEN [held.value EXCEPT !.XPos = x]
                      ELSE [held.value EXCEPT !.PlayerData.XPos = x]
       IN /\ held' = [held EXCEPT !.value = written]
          /\ players' = IF held.attached
                        THEN IF held.kind = "player"
                             THEN [players EXCEPT ![held.id].PlayerData = written]
                             ELSE [players EXCEPT ![held.id] = written]
                        ELSE players
    /\ ret' = [op |-> "CallerWrites", id |-> held.id]
    /\ cleanSinceDelta' = (cleanSinceDelta /\ players' = players)
    /\ UNCHANGED <<worldMap, lastBroadcastPlayers, liveIds, sinceDelta>>

NextAlias ==
    /\ \/ \E playerID \in PlayerIDs \ DOMAIN players, username \in Usernames,
             startX, startY \in StartCoords :
             AliasAddPlayer(playerID, username, startX, startY)
       \/ \E playerID \in PlayerIDs, direction \in InputDirections :
             AliasApplyInput(playerID, direction)
       \/ AliasGetAllPlayers
       \/ \E playerID \in PlayerIDs : AliasGetTrackedPlayer(playerID)
       \/ \E playerID \in PlayerIDs, direction \in InputDirections :
             AliasStoreApplyInput(playerID, direction)
       \/ \E playerID \in PlayerIDs : AliasStoreRemovePlayer(playerID)
       \/ \E x \in WrittenCoords : AliasCallerWrites(x)
    /\ UNCHANGED <<concVars, srvVars>>

SpecAlias == Init /\ [][NextAlias]_vars

-----------------------------------------------------------------------------
(* Properties of the delta synchroniser (specification Spec) *)

\* two pb.Player records differ in some field
FieldsDiffer(a, b) ==
    \/ a.Id # b.Id
    \/ a.Username # b.Username
    \/ a.XPos # b.XPos
    \/ a.YPos # b.YPos
    \/ a.CurrentAnimationState # b.CurrentAnimationState

\* the live ids whose record is missing from the snapshot or differs from it
ChangedIds == {id \in DOMAIN players :
                  \/ id \notin DOMAIN lastBroadcastPlayers
                  \/ FieldsDiffer(lastBroadcastPlayers[id], players[id].PlayerData)}

\* every result GenerateDeltaUpdate can return in the current state
PossibleDeltas ==
    {GenerateDeltaUpdateResult(players, lastBroadcastPlayers, order, lastOrder) :
        order \in Orders(DOMAIN players), lastOrder \in Orders(DOMAIN lastBroadcastPlayers)}

C7_NoMutationNoDelta ==
    [][(cleanSinceDelta /\ ret'.op = "GenerateDeltaUpdate")
          => /\ ret'.changed = FALSE
             /\ ret'.delta.UpdatedPlayers = << >>
             /\ ret'.delta.RemovedPlayerIds = << >>]_vars

\* a GenerateDeltaUpdate has returned changed = false with live players that
\* all are in the snapshot
C7_Witness ==
    /\ ret.op = "GenerateDeltaUpdate"
    /\ ret.changed = FALSE
    /\ cleanSinceDelta
    /\ DOMAIN players = PlayerIDs
    /\ DOMAIN lastBroadcastPlayers = PlayerIDs

\* C8: GetInitialStateDelta returns every live player once in UpdatedPlayers and
\* no RemovedPlayerIds, leaves players and the snapshot as they were, and so
\* leaves what the next GenerateDeltaUpdate can return as it was
C8_InitialStateDelta ==
    [][ret'.op = "GetInitialStateDelta" =>
          /\ IdsOf(ret'.delta.UpdatedPlayers) = liveIds
          /\ Len(ret'.delta.UpdatedPlayers) = Cardinality(liveIds)
          /\ \A i \in 1..Len(ret'.delta.UpdatedPlayers) :
                LET p == ret'.delta.UpdatedPlayers[i]
                IN p.Id \in DOMAIN players /\ ~FieldsDiffer(p, players[p.Id].PlayerData)
          /\ ret'.delta.RemovedPlayerIds = << >>
          /\ lastBroadcastPlayers' = lastBroadcastPlayers
          /\ PossibleDeltas' = PossibleDeltas]_vars

\* GetInitialStateDelta has returned two players while the snapshot was behind
\* the store
C8_Witness ==
    /\ ret.op = "GetInitialStateDelta"
    /\ Len(ret.delta.UpdatedPlayers) = 2
    /\ ChangedIds # {}
    /\ lastBroadcastPlayers # EmptyMap

\* C9: GetAllPlayerIDs returns the ids added and not removed since, each once
C9_AllPlayerIDsAreLive ==
    ret.op = "GetAllPlayerIDs" =>
        /\ SeqToSet(ret.ids) = liveIds
        /\ Len(ret.ids) = Cardinality(liveIds)

\* GetAllPlayerIDs has returned one id after the other player was removed
C9_Witness ==
    /\ ret.op = "GetAllPlayerIDs"
    /\ Len(ret.ids) = 1
    /\ \E id \in PlayerIDs : sinceDelta[id] = "removed"

\* C10: GenerateDeltaUpdate lists in UpdatedPlayers exactly the live players
\* missing from the snapshot or differing from it in a field, each once with
\* its current record, and in RemovedPlayerIds exactly the snapshot's ids that
\* are not live, each once; no id is in both lists
C10_DeltaIsExact ==
    [][ret'.op = "GenerateDeltaUpdate" =>
          LET upd == ret'.delta.UpdatedPlayers
              rem == ret'.delta.RemovedPlayerIds
          IN /\ IdsOf(upd) = ChangedIds
             /\ Len(upd) = Cardinality(ChangedIds)
             /\ \A i \in 1..Len(upd) : ~FieldsDiffer(upd[i], players[upd[i].Id].PlayerData)
             /\ SeqToSet(rem) = (DOMAIN lastBroadcastPlayers) \ (DOMAIN players)
             /\ Len(rem) = Cardinality((DOMAIN lastBroadcastPlayers) \ (DOMAIN players))
             /\ IdsOf(upd) \cap SeqToSet(rem) = {}]_vars

\* a GenerateDeltaUpdate has listed one player, neither added nor removed since
\* the call before, as updated and the other player as removed
C10_Witness ==
    /\ ret.op = "GenerateDeltaUpdate"
    /\ Len(ret.delta.UpdatedPlayers) = 1
    /\ Len(ret.delta.RemovedPlayerIds) = 1
    /\ \E id \in PlayerIDs : ret.events[id] = "none" /\ id \in IdsOf(ret.delta.UpdatedPlayers)

\* C11: GenerateDeltaUpdate returns changed = TRUE exactly when one of its two
\* lists is not empty; when changed is FALSE the snapshot is what it was, and
\* when changed is TRUE the snapshot is every live id with its current record
\* and no other id.
C11_ChangedIffDeltaNotEmpty ==
    [][ret'.op = "GenerateDeltaUpdate"
          => /\ ret'.changed = (\/ Len(ret'.delta.UpdatedPlayers) > 0
                                \/ Len(ret'.delta.RemovedPlayerIds) > 0)
             /\ ~ret'.changed => lastBroadcastPlayers' = lastBroadcastPlayers
             /\ ret'.changed =>
                   /\ DOMAIN lastBroadcastPlayers' = DOMAIN players
                   /\ \A id \in DOMAIN players :
                         ~FieldsDiffer(lastBroadcastPlayers'[id], players[id].PlayerData)]_vars

\* a GenerateDeltaUpdate reported a removal and no update, and replaced a
\* snapshot that held the removed id with the live players
C11_Witness ==
    /\ ret.op = "GenerateDeltaUpdate"
    /\ ret.changed
    /\ Len(ret.delta.UpdatedPlayers) = 0
    /\ Len(ret.delta.RemovedPlayerIds) = 1
    /\ DOMAIN players # {}
    /\ DOMAIN lastBroadcastPlayers = DOMAIN players
    /\ ret.delta.RemovedPlayerIds[1] \notin DOMAIN lastBroadcastPlayers

-----------------------------------------------------------------------------
(* Properties of the tick driver (specification SpecTick) *)

\* C1: a gameTick that finds a live player with LastDirection UP and input
\* older than movementTimeout sets its direction to UNKNOWN, and the
\* GenerateDeltaUpdate it then makes lists that player in UpdatedPlayers with
\* animation state IDLE
C1_TimeoutShowsIdle ==
    [][\A id \in PlayerIDs :
          (/\ ret'.op = "gameTick"
           /\ id \in DOMAIN players
           /\ players[id].LastDirection = "UP"
           /\ players[id].SinceLastInput > movementTimeout)
              => /\ players'[id].LastDirection = UNKNOWN
                 /\ ret'.generated
                 /\ \E i \in 1..Len(ret'.delta.UpdatedPlayers) :
                       /\ ret'.delta.UpdatedPlayers[i].Id = id
                       /\ ret'.delta.UpdatedPlayers[i].CurrentAnimationState = "IDLE"]_vars

\* the animation states a list of pb.Player records reports for id
ReportedPoses(list, id) ==
    {list[i].CurrentAnimationState : i \in {j \in 1..Len(list) : list[j].Id = id}}

\* C17: in every reachable state, whatever GetAllPlayers, GenerateDeltaUpdate
\* and GetInitialStateDelta report as the animation state of a live player is
\* the pose derived from the player's LastDirection.
C17_ReportedPoseFollowsDirection ==
    \A id \in DOMAIN players :
        \A order \in Orders(DOMAIN players),
           lastOrder \in Orders(DOMAIN lastBroadcastPlayers) :
            LET pose == AnimationFor(players[id].LastDirection)
                all == GetAllPlayersResult(players, order)
                full == GetInitialStateDeltaResult(players, lastBroadcastPlayers,
                                                   order).delta.UpdatedPlayers
                diff == GenerateDeltaUpdateResult(players, lastBroadcastPlayers,
                                                  order, lastOrder).delta.UpdatedPlayers
            IN /\ ReportedPoses(all, id) = {pose}
               /\ ReportedPoses(full, id) = {pose}
               /\ ReportedPoses(diff, id) \subseteq {pose}

-----------------------------------------------------------------------------
(* Properties of gameTick among the handlers' calls (specification         *)
(* SpecSweep)                                                              *)

\* C19: a sweep resets to UNKNOWN only players whose direction is not UNKNOWN
\* and whose last input is older than movementTimeout; no step of the sweep
\* changes a position or a LastInputTime; and the sweep calls
\* GenerateDeltaUpdate once if it reset a direction and not at all otherwise.
C19_SweepResetsOnlyTimedOut ==
    [][/\ \A id \in PlayerIDs :
             (/\ ret'.op = "UpdatePlayerDirection" /\ ret'.id = id
              /\ id \in DOMAIN players
              /\ players'[id].LastDirection # players[id].LastDirection)
                 => /\ players'[id].LastDirection = UNKNOWN
                    /\ players[id].LastDirection # UNKNOWN
                    /\ players[id].SinceLastInput > movementTimeout
       /\ TickStep =>
             /\ DOMAIN players' = DOMAIN players
             /\ \A id \in DOMAIN players :
                   /\ players'[id].PlayerData.XPos = players[id].PlayerData.XPos
                   /\ players'[id].PlayerData.YPos = players[id].PlayerData.YPos
                   /\ players'[id].SinceLastInput = players[id].SinceLastInput
       /\ ret'.op = "gameTick" => ret'.generated = (calls[Ticker].reset # {})]_vars

\* id is live with a direction, and the last call was not an input for id
StillMoving(id) ==
    /\ id \in DOMAIN players
    /\ players[id].LastDirection # UNKNOWN
    /\ ~(ret.op = "ApplyInput" /\ ret.id = id)

\* id received an input or was removed
InputOrGone(id) ==
    \/ id \notin DOMAIN players
    \/ ret.op = "ApplyInput" /\ ret.id = id

\* the delta just generated for broadcast shows id with animation state IDLE
ShownIdle(id) ==
    /\ ret.op \in {"gameTick", "GenerateDeltaUpdate"}
    /\ IF ret.op = "gameTick" THEN ret.generated ELSE TRUE
    /\ \E i \in 1..Len(ret.delta.UpdatedPlayers) :
          /\ ret.delta.UpdatedPlayers[i].Id = id
          /\ ret.delta.UpdatedPlayers[i].CurrentAnimationState = "IDLE"

\* C18 (specification SpecSweepFair): if a live player with a direction
\* receives no further input, then with the ticker running its direction
\* eventually becomes UNKNOWN and a delta showing the player as IDLE is
\* eventually generated for the connected clients.
C18_StalePlayerShownIdle ==
    \A id \in PlayerIDs :
        /\ StillMoving(id) ~> (InputOrGone(id) \/ players[id].LastDirection = UNKNOWN)
        /\ StillMoving(id) ~> (InputOrGone(id) \/ ShownIdle(id))

-----------------------------------------------------------------------------
(* Properties of movement (specification SpecMove) *)

\* the position of a tracked player
PositionOf(tp) == <<tp.PlayerData.XPos, tp.PlayerData.YPos>>

\* the box of half extents PlayerHalfWidth, PlayerHalfHeight around pos shares
\* an area with a Wall tile of the map
BoxOverlapsWall(pos) ==
    \E ty \in 0..(mapTileHeight - 1), tx \in 0..(mapTileWidth - 1) :
        /\ worldMap[ty + 1][tx + 1] = TileTypeWall
        /\ tx * tileSize < pos[1] + PlayerHalfWidth
        /\ (tx + 1) * tileSize > pos[1] - PlayerHalfWidth
        /\ ty * tileSize < pos[2] + PlayerHalfHeight
        /\ (ty + 1) * tileSize > pos[2] - PlayerHalfHeight

\* the boxes around two positions share an area
BoxesOverlap(a, b) ==
    /\ a[1] - b[1] < 2 * PlayerHalfWidth
    /\ b[1] - a[1] < 2 * PlayerHalfWidth
    /\ a[2] - b[2] < 2 * PlayerHalfHeight
    /\ b[2] - a[2] < 2 * PlayerHalfHeight

\* the box around pos shares an area with the box of a player of ps other than id
BoxOverlapsOther(ps, id, pos) ==
    \E other \in (DOMAIN ps) \ {id} : BoxesOverlap(pos, PositionOf(ps[other]))

\* C4: whenever ApplyInput changes a player's position, the new box overlaps no
\* Wall tile and no other live player's box; and an ApplyInput whose stepped
\* position would overlap a wall or another player leaves the position as it
\* was (pushing toward a wall does not advance)
C4_MovesOnlyToFreePositions ==
    [][\A id \in PlayerIDs :
          (ret'.op = "ApplyInput" /\ ret'.id = id /\ ret'.ok)
              => LET old == PositionOf(players[id])
                     new == PositionOf(players'[id])
                     cand == PotentialPosition(old[1], old[2], ret'.direction)
                 IN /\ new # old => /\ ~BoxOverlapsWall(new)
                                    /\ ~BoxOverlapsOther(players', id, new)
                    /\ (BoxOverlapsWall(cand) \/ BoxOverlapsOther(players, id, cand))
                          => new = old]_vars

\* an ApplyInput toward a wall one step away was blocked, with another player
\* live: the player is where it was
C4_Witness ==
    /\ ret.op = "ApplyInput"
    /\ ret.ok
    /\ Cardinality(DOMAIN players) = 2
    /\ PositionOf(players[ret.id]) = ret.from
    /\ LET cand == PotentialPosition(ret.from[1], ret.from[2], ret.direction)
       IN /\ cand # ret.from
          /\ BoxOverlapsWall(cand)
          /\ ~BoxOverlapsWall(ret.from)
          /\ ~BoxOverlapsOther(players, ret.id, cand)

\* C5: every live player's x is in [worldMinX + PlayerHalfWidth,
\* worldMaxX - PlayerHalfWidth] and its y in [worldMinY + PlayerHalfHeight,
\* worldMaxY - PlayerHalfHeight]
C5_PositionsInsideWorld ==
    \A id \in DOMAIN players :
        /\ players[id].PlayerData.XPos >= worldMinX + PlayerHalfWidth
        /\ players[id].PlayerData.XPos <= worldMaxX - PlayerHalfWidth
        /\ players[id].PlayerData.YPos >= worldMinY + PlayerHalfHeight
        /\ players[id].PlayerData.YPos <= worldMaxY - PlayerHalfHeight

\* an ApplyInput that stepped beyond the world's edge was clamped back to the
\* position on the edge
C5_Witness ==
    /\ ret.op = "ApplyInput"
    /\ ret.ok
    /\ ret.direction \in {"DOWN", "RIGHT", "UP", "LEFT"}
    /\ PositionOf(players[ret.id]) = ret.from
    /\ PotentialPosition(ret.from[1], ret.from[2], ret.direction) = ret.from
    /\ ~BoxOverlapsWall(ret.from)
    /\ ~BoxOverlapsOther(players, ret.id, ret.from)

\* the running poses
RunningPoses == AnimationStates \ {"IDLE"}

\* C13: an ApplyInput whose candidate position overlaps a wall tile or another
\* player's box leaves x and y as they were, sets LastDirection to the
\* requested direction and sets the stored animation state to the running
\* pose of that direction.
C13_BlockedKeepsPositionShowsPose ==
    [][\A id \in PlayerIDs :
          (/\ ret'.op = "ApplyInput" /\ ret'.id = id /\ ret'.ok
           /\ ret'.direction # UNKNOWN
           /\ LET old == PositionOf(players[id])
                  cand == PotentialPosition(old[1], old[2], ret'.direction)
              IN BoxOverlapsWall(cand) \/ BoxOverlapsOther(players, id, cand))
              => /\ PositionOf(players'[id]) = PositionOf(players[id])
                 /\ players'[id].LastDirection = ret'.direction
                 /\ players'[id].PlayerData.CurrentAnimationState
                        = AnimationFor(ret'.direction)
                 /\ players'[id].PlayerData.CurrentAnimationState \in RunningPoses]_vars

\* an ApplyInput toward another player one step away was blocked: the player
\* is where it was and shows the running pose of the direction
C13_Witness ==
    /\ ret.op = "ApplyInput"
    /\ ret.ok
    /\ ret.direction \in {"LEFT", "RIGHT"}
    /\ PositionOf(players[ret.id]) = ret.from
    /\ LET cand == PotentialPosition(ret.from[1], ret.from[2], ret.direction)
       IN /\ cand # ret.from
          /\ ~BoxOverlapsWall(cand)
          /\ BoxOverlapsOther(players, ret.id, cand)
          /\ ~BoxOverlapsOther(players, ret.id, ret.from)
    /\ players[ret.id].PlayerData.CurrentAnimationState = AnimationFor(ret.direction)

\* C15: an ApplyInput with direction UNKNOWN leaves x and y as they were, sets
\* LastDirection to UNKNOWN and the animation state to IDLE, whatever the
\* direction was before.
C15_UnknownDirectionIsIdle ==
    [][\A id \in PlayerIDs :
          (ret'.op = "ApplyInput" /\ ret'.id = id /\ ret'.ok /\ ret'.direction = UNKNOWN)
              => /\ PositionOf(players'[id]) = PositionOf(players[id])
                 /\ players'[id].LastDirection = UNKNOWN
                 /\ players'[id].PlayerData.CurrentAnimationState = "IDLE"]_vars

\* an ApplyInput with direction UNKNOWN reached a player that had run away
\* from every position AddPlayer can put it at
C15_Witness ==
    /\ ret.op = "ApplyInput"
    /\ ret.ok
    /\ ret.direction = UNKNOWN
    /\ PositionOf(players[ret.id]) = ret.from
    /\ \A startX, startY \in MoveStartCoords :
          ret.from # <<NewPlayerData(ret.id, "", startX, startY).XPos,
                       NewPlayerData(ret.id, "", startX, startY).YPos>>
    /\ players[ret.id].LastDirection = UNKNOWN
    /\ players[ret.id].PlayerData.CurrentAnimationState = "IDLE"

-----------------------------------------------------------------------------
(* Properties of the receive loop (specification SpecHandle) *)

\* C14: an ApplyInput with an id that is not live returns found = FALSE,
\* creates no record and leaves every player record and the snapshot as they
\* were; the handler then calls no GenerateDeltaUpdate for that input and goes
\* on to its next Recv.
C14_UnknownPlayerIsIgnored ==
    [][\A id \in PlayerIDs :
          (ret'.op = "HandlePlayerInput" /\ ret'.id = id /\ id \notin DOMAIN players)
              => /\ ~ret'.ok
                 /\ players' = players
                 /\ lastBroadcastPlayers' = lastBroadcastPlayers
                 /\ ~ret'.generated
                 /\ ret'.next = "Recv"]_vars

\* an input for an id that is not live was handled while the other player
\* was live with a change not yet in the snapshot: the change is still pending
C14_Witness ==
    /\ ret.op = "HandlePlayerInput"
    /\ ~ret.ok
    /\ ret.id \notin DOMAIN players
    /\ ~ret.generated
    /\ DOMAIN players # {}
    /\ \E id \in DOMAIN players :
          id \notin DOMAIN lastBroadcastPlayers
    /\ \E id \in DOMAIN lastBroadcastPlayers : id \notin DOMAIN players

-----------------------------------------------------------------------------
(* Properties of handed-out records (specification SpecAlias) *)

\* a step of the store made by another caller than the holder of the record
StoreStep ==
    \/ \E playerID \in PlayerIDs, direction \in InputDirections :
          AliasStoreApplyInput(playerID, direction)
    \/ \E playerID \in PlayerIDs : AliasStoreRemovePlayer(playerID)

\* C16: every record the store hands out is an owned copy: a write by the
\* caller to the record that AddPlayer, ApplyInput, GetAllPlayers or
\* GetTrackedPlayer returned leaves the store as it was, and a later mutation
\* of the store leaves the record already returned as it was.
C16_HandedOutRecordsAreCopies ==
    [][/\ ret'.op = "CallerWrites" => players' = players
       /\ (held.op # "none" /\ StoreStep) => held'.value = held.value]_vars

-----------------------------------------------------------------------------
(* Properties of concurrent calls (specification SpecConc) *)

\* the stores that applying the inputs one at a time can end in: every order
\* of the calls that keeps each goroutine's own calls in order
RECURSIVE SerialResults(_, _)
SerialResults(ps, remaining) ==
    LET pending == {t \in DOMAIN remaining : remaining[t] # << >>}
    IN IF pending = {} THEN {ps}
       ELSE UNION {SerialResults(ApplyInputPlayers(ps, t, Head(remaining[t])),
                                 [remaining EXCEPT ![t] = Tail(@)]) : t \in pending}

\* no goroutine is inside a method of the store
Quiescent == \A t \in Goroutines : calls[t].pc = "idle"

\* C6: with one goroutine per live player calling ApplyInput and one calling
\* GenerateDeltaUpdate, whenever all the calls made have returned the store
\* equals the result of applying the inputs one at a time in some order, each
\* input once, and no call has failed.
C6_EndsInSerialState ==
    Quiescent =>
        /\ players \in SerialResults(concHist.start, concHist.inputs)
        /\ \A t \in Goroutines : calls[t].count > 0 => ~calls[t].failed

\* every goroutine has made all its calls, a player moved, and the order of
\* the calls mattered: other serial orders end in other stores
C6_Witness ==
    /\ Quiescent
    /\ \A t \in Goroutines : calls[t].count = MaxInputs
    /\ \E t \in PlayerIDs : players[t].PlayerData.XPos # concHist.start[t].PlayerData.XPos
    /\ Cardinality(SerialResults(concHist.start, concHist.inputs)) > 1
    /\ ret.op = "GenerateDeltaUpdate"
    /\ ret.changed

-----------------------------------------------------------------------------
(* Properties of GenerateDeltaUpdate among other calls (specification       *)
(* SpecAtomic)                                                              *)

\* GenerateDeltaUpdate has made its first read and not yet replaced the snapshot
InsideGenerateDeltaUpdate == calls[Broadcaster].pc \in {"removed", "save"}

\* C12: between the first read of GenerateDeltaUpdate and its replacement of
\* the snapshot no AddPlayer, RemovePlayer, ApplyInput or
\* UpdatePlayerDirection takes effect, and the delta it returns and the
\* snapshot it stores are those of one store state: what the two loops and
\* the replacement, run with nothing in between, give on the store as it is
\* when the snapshot is replaced.
C12_GenerateDeltaUpdateIsAtomic ==
    [][/\ (InsideGenerateDeltaUpdate /\ calls'[Broadcaster] = calls[Broadcaster])
             => /\ players' = players
                /\ lastBroadcastPlayers' = lastBroadcastPlayers
       /\ (calls[Broadcaster].pc = "save" /\ calls'[Broadcaster].pc = "unlock")
             => \E order \in Orders(DOMAIN players),
                   lastOrder \in Orders(DOMAIN lastBroadcastPlayers) :
                   LET r == GenerateDeltaUpdateResult(players, lastBroadcastPlayers,
                                                      order, lastOrder)
                   IN /\ calls'[Broadcaster].delta = r.delta
                      /\ calls'[Broadcaster].changed = r.changed
                      /\ lastBroadcastPlayers' = r.lastBroadcastPlayers]_vars

\* GenerateDeltaUpdate has listed a removal and replaced the snapshot, while
\* a connection's goroutine and the ticker were waiting for the lock it holds
C12_Witness ==
    /\ calls[Broadcaster].pc = "unlock"
    /\ calls[Broadcaster].changed
    /\ Len(calls[Broadcaster].delta.RemovedPlayerIds) > 0
    /\ lastBroadcastPlayers = [id \in DOMAIN players |-> players[id].PlayerData]
    /\ mu = Broadcaster
    /\ calls[Ticker].pc = "lock"
    /\ \E t \in PlayerIDs : calls[t].pc = "lock" /\ calls[t].op = "ApplyInput"

\* the handler of id has added its player and has not returned
Joined(id) == calls[id].pc \notin {"idle", "hello", "returned"}

\* the stream of a joined connection has ended: the client closed it, it
\* broke, or a Send of the join failed on it
StreamOver(id) == Joined(id) /\ streams[id] = "ended"

\* the handler of id returned through its deferred function: RemovePlayer,
\* removeStream, then the GenerateDeltaUpdate of broadcastDeltaState
TornDown(id) ==
    /\ calls[id].pc = "returned"
    /\ calls[id].done = <<"RemovePlayer", "removeStream", "GenerateDeltaUpdate">>
    /\ id \notin DOMAIN players
    /\ id \notin activeStreams

\* C20: once the stream of a joined connection has ended (closed, broken, or
\* a Send of the join failed on it), the handler's deferred function runs to
\* its end: it removes the player from the store, then the stream from the
\* registry, then calls GenerateDeltaUpdate, so the id ends absent from
\* both; and if the id is in the last broadcast snapshot, every other client
\* that is registered is sent a delta listing the id as removed, or leaves
\* the registry.
C20_StreamEndTearsDown ==
    \A id \in PlayerIDs :
        /\ StreamOver(id) ~> TornDown(id)
        /\ \A c \in PlayerIDs \ {id} :
              (StreamOver(id) /\ id \in DOMAIN lastBroadcastPlayers /\ c \in activeStreams)
                  ~> (id \in delivered[c] \/ c \notin activeStreams)

\* C20 witness: a handler returned through its deferred function, and its
\* own broadcast sent the removal to the other client, still connected
C20_Witness ==
    \E id \in PlayerIDs : \E c \in PlayerIDs \ {id} :
        /\ TornDown(id)
        /\ ret.op = "broadcastDeltaState" /\ ret.by = id
        /\ id \in delivered[c]
        /\ c \in activeStreams
        /\ streams[c] = "open"

\* C21: the first message a joining client receives is the initial map,
\* the second is the initial full-state delta, and no other server message
\* reaches it before these two.
C21_JoinMessagesComeFirst ==
    \A c \in PlayerIDs :
        \A i \in 1..Len(received[c]) : received[c][i] = JoinMessages[i]

\* the step is the receipt of a message that is not a PlayerInput
OtherMessageStep == ret' # ret /\ ret'.op = "Recv" /\ "message" \in DOMAIN ret'

\* C25: after the join, a second ClientHello or a message with an unknown
\* payload leaves the store, the snapshot and the registry unchanged, starts
\* no broadcast, and the handler stays in its receive loop with its stream
\* open.
C25_OtherMessagesAreIgnored ==
    [][OtherMessageStep =>
          /\ players' = players
          /\ lastBroadcastPlayers' = lastBroadcastPlayers
          /\ activeStreams' = activeStreams
          /\ streams' = streams
          /\ calls' = calls
          /\ calls'[ret'.id].pc = "recv"]_vars

\* C25 witness: a registered handler with its player in the store and in the
\* snapshot got a second ClientHello and is in its loop
C25_Witness ==
    /\ ret.op = "Recv"
    /\ "message" \in DOMAIN ret
    /\ ret.message = "ClientHello"
    /\ ret.id \in activeStreams
    /\ ret.id \in DOMAIN players
    /\ ret.id \in DOMAIN lastBroadcastPlayers
    /\ calls[ret.id].pc = "recv"

\* the ids of the Sends in a list of attempts
AttemptedIds(attempts) == {attempts[i].id : i \in 1..Len(attempts)}

\* goroutine t makes a Send of its broadcast in this step
SendStep(t) == Len(calls'[t].attempts) > Len(calls[t].attempts)

\* goroutine t leaves the loop of its broadcast in this step
LoopEndStep(t) == calls[t].pc = "loop" /\ calls'[t].pc = "unlockStreams"

\* C22: a Send that fails in a broadcast touches only its own stream: the
\* streams registered when the broadcast takes the registry get one Send
\* each, whatever fails; the registry changes only after the loop, which
\* deletes exactly the streams whose Send failed; and no step of a broadcast
\* removes a player from the store.
C22_SendFailureIsIsolated ==
    [][\A t \in PlayerIDs :
          /\ calls'[t] # calls[t] => players' = players
          /\ SendStep(t) => activeStreams' = activeStreams
          /\ LoopEndStep(t) =>
                /\ calls[t].registered = activeStreams
                /\ Len(calls[t].attempts) = Cardinality(calls[t].registered)
                /\ AttemptedIds(calls[t].attempts) = calls[t].registered
                /\ activeStreams' = activeStreams \
                      {calls[t].attempts[i].id : i \in
                          {j \in 1..Len(calls[t].attempts) :
                              calls[t].attempts[j].outcome = "failed"}}]_vars

\* C22 witness: a broadcast returned after the first of its two Sends had
\* failed and the second had reached its client; the dead stream is gone
\* from the registry and its player is still in the store
C22_Witness ==
    /\ ret.op = "broadcastDeltaState"
    /\ Len(ret.attempts) = 2
    /\ ret.attempts[1].outcome = "failed"
    /\ ret.attempts[2].outcome = "received"
    /\ ret.attempts[1].id \notin activeStreams
    /\ ret.attempts[2].id \in activeStreams
    /\ ret.attempts[1].id \in DOMAIN players

\* goroutine t returns from broadcastDeltaState in this step
BroadcastReturnStep(t) == calls[t].pc # "idle" /\ calls'[t].pc = "idle"

\* C23: the delta of a GenerateDeltaUpdate that returned changed = true is
\* sent on every registered stream: a stream registered when it returned
\* gets a Send of that delta unless it leaves the registry first, and the
\* Sends go to all the streams registered when they start; after changed =
\* false nothing is sent.
C23_ChangedDeltaIsSentToAll ==
    /\ \A t \in PlayerIDs : \A c \in PlayerIDs :
          (calls[t].pc = "generated" /\ calls[t].changed /\ c \in activeStreams)
              ~> (c \in AttemptedIds(calls[t].attempts) \/ c \notin activeStreams)
    /\ [][\A t \in PlayerIDs :
          /\ (calls[t].pc = "generate" /\ calls'[t].pc = "generated")
                => /\ calls'[t].delta = ret'.delta
                   /\ calls'[t].changed = ret'.changed
          /\ LoopEndStep(t)
                => /\ calls[t].changed
                   /\ AttemptedIds(calls[t].attempts) = activeStreams
                   /\ \A i \in 1..Len(calls[t].attempts) :
                         calls[t].attempts[i].message = calls[t].delta
          /\ (BroadcastReturnStep(t) /\ ~calls[t].changed)
                => calls[t].attempts = << >>
          /\ (BroadcastReturnStep(t) /\ calls[t].changed /\ calls[t].registered # {})
                => AttemptedIds(calls[t].attempts) = calls[t].registered]_vars

\* C23 witness: a broadcast whose GenerateDeltaUpdate returned changed =
\* true has returned, its delta received by two clients
C23_Witness ==
    /\ ret.op = "broadcastDeltaState"
    /\ ret.changed
    /\ Len(ret.attempts) = 2
    /\ \A i \in 1..2 : /\ ret.attempts[i].outcome = "received"
                        /\ ret.attempts[i].message = ret.delta
    /\ Len(ret.delta.UpdatedPlayers) > 0

\* C24: a goroutine that sends the delta of a broadcast holds muStreams and
\* does not hold State.mu.
C24_SendsUnderRegistryLockOnly ==
    [][\A t \in PlayerIDs : SendStep(t) => (mu # t /\ muStreams = t)]_vars

\* C24 witness: a goroutine has made a Send while the other goroutine was
\* inside GenerateDeltaUpdate, holding State.mu
C24_Witness ==
    \E t \in PlayerIDs :
        /\ ret.op = "Send" /\ ret.by = t
        /\ muStreams = t
        /\ mu \in PlayerIDs \ {t}

\* C26: UpdatePlayerDirection(id, d) returns true exactly when id is live
\* and its LastDirection differs from d, and then only LastDirection
\* changes, to d; when it returns false the store and the snapshot are
\* unchanged; the position and the time of the last input never change.
C26_UpdateDirectionOnlyIfChanged ==
    [][ret'.op = "UpdatePlayerDirection" =>
          LET id == ret'.id
              d == ret'.dir
          IN /\ ret'.changed = (id \in DOMAIN players /\ players[id].LastDirection # d)
             /\ ret'.changed =>
                   /\ DOMAIN players' = DOMAIN players
                   /\ players'[id].LastDirection = d
                   /\ players'[id].PlayerData = players[id].PlayerData
                   /\ players'[id].SinceLastInput = players[id].SinceLastInput
                   /\ \A other \in DOMAIN players \ {id} : players'[other] = players[other]
             /\ ~ret'.changed => players' = players
             /\ lastBroadcastPlayers' = lastBroadcastPlayers
             /\ worldMap' = worldMap]_vars

\* C26 witness: UpdatePlayerDirection has reset the direction of a player
\* whose last input is old and whose pose is a running pose
C26_Witness ==
    /\ ret.op = "UpdatePlayerDirection"
    /\ ret.changed
    /\ ret.dir = UNKNOWN
    /\ players[ret.id].LastDirection = UNKNOWN
    /\ players[ret.id].SinceLastInput > movementTimeout
    /\ players[ret.id].PlayerData.CurrentAnimationState # "IDLE"

\* the value clamp would give, written out: v moved into lo..hi
Into(v, lo, hi) == IF v < lo THEN lo ELSE IF v > hi THEN hi ELSE v

\* C27: AddPlayer(id, username, startX, startY) inserts a record whose
\* position is the start position moved into [worldMin + half extent,
\* worldMax - half extent] on each axis, whose direction is UNKNOWN and whose
\* animation state is IDLE, and returns a record with the same field values.
C27_AddPlayerClampsAndStartsIdle ==
    ret.op = "AddPlayer" =>
        /\ ret.id \in DOMAIN players
        /\ LET tp == players[ret.id]
           IN /\ tp.PlayerData.Id = ret.id
              /\ tp.PlayerData.XPos = Into(ret.start[1], worldMinX + PlayerHalfWidth,
                                           worldMaxX - PlayerHalfWidth)
              /\ tp.PlayerData.YPos = Into(ret.start[2], worldMinY + PlayerHalfHeight,
                                           worldMaxY - PlayerHalfHeight)
              /\ tp.PlayerData.CurrentAnimationState = "IDLE"
              /\ tp.LastDirection = UNKNOWN
              /\ ret.player = tp.PlayerData

\* C27 witness: AddPlayer was given a start position beyond the world on x
\* and before it on y, next to a player that has moved
C27_Witness ==
    /\ ret.op = "AddPlayer"
    /\ ret.start[1] > worldMaxX
    /\ ret.start[2] < worldMinY + PlayerHalfHeight
    /\ ret.player.XPos = worldMaxX - PlayerHalfWidth
    /\ ret.player.YPos = worldMinY + PlayerHalfHeight
    /\ \E other \in DOMAIN players \ {ret.id} : players[other].LastDirection # UNKNOWN

\* C28: RemovePlayer(id) on an id that is not live changes neither the
\* store nor the snapshot and reports nothing; after any RemovePlayer(id)
\* the id is gone, the other players are as they were, and a second
\* RemovePlayer(id) would change nothing.
C28_RemovePlayerIsIdempotent ==
    [][ret'.op = "RemovePlayer" =>
          LET id == ret'.id
          IN /\ DOMAIN ret' = {"op", "id"}
             /\ lastBroadcastPlayers' = lastBroadcastPlayers
             /\ worldMap' = worldMap
             /\ id \notin DOMAIN players => players' = players
             /\ DOMAIN players' = DOMAIN players \ {id}
             /\ \A other \in DOMAIN players' : players'[other] = players[other]
             /\ RemovePlayerPlayers(players', id) = players']_vars

\* C28 witness: RemovePlayer was called for an id that was not live, while
\* another player was live and broadcast
C28_Witness ==
    /\ ret.op = "RemovePlayer"
    /\ sinceDelta[ret.id] = "none"
    /\ ret.id \notin DOMAIN lastBroadcastPlayers
    /\ players # EmptyMap
    /\ DOMAIN lastBroadcastPlayers = DOMAIN players

\* a part of the box around pos lies outside the map rectangle
BoxOutsideMap(pos) ==
    \/ pos[1] - PlayerHalfWidth < worldMinX
    \/ pos[1] + PlayerHalfWidth > worldMaxX
    \/ pos[2] - PlayerHalfHeight < worldMinY
    \/ pos[2] + PlayerHalfHeight > worldMaxY

C30_CollidesIffStrictOverlapWithOther ==
    ret.op = "checkPlayerCollision" =>
        (ret.collides <=>
            \E other \in DOMAIN players \ {ret.id} :
                LET dx == ret.potentialX - players[other].PlayerData.XPos
                    dy == ret.potentialY - players[other].PlayerData.YPos
                IN /\ dx < 2 * PlayerHalfWidth /\ -dx < 2 * PlayerHalfWidth
                   /\ dy < 2 * PlayerHalfHeight /\ -dy < 2 * PlayerHalfHeight)

\* C30 witness: the candidate stands on its own record, and the other
\* player's box touches the candidate box along an edge: no collision
C30_Witness ==
    /\ ret.op = "checkPlayerCollision"
    /\ ~ret.collides
    /\ ret.id \in DOMAIN players
    /\ PositionOf(players[ret.id]) = <<ret.potentialX, ret.potentialY>>
    /\ \E other \in DOMAIN players \ {ret.id} :
          /\ players[other].PlayerData.XPos - ret.potentialX = 2 * PlayerHalfWidth
          /\ players[other].PlayerData.YPos = ret.potentialY

-----------------------------------------------------------------------------
(* The delta against the full state *)

\* the view a receiver holds after a delta: every record of UpdatedPlayers
\* stored under its id, every id of RemovedPlayerIds deleted
ApplyDelta(view, delta) ==
    LET updated == delta.UpdatedPlayers
        upserted == IdsOf(updated)
        removed == SeqToSet(delta.RemovedPlayerIds)
    IN [id \in (DOMAIN view \cup upserted) \ removed |->
          IF id \in upserted
          THEN LET last == CHOOSE i \in 1..Len(updated) :
                              /\ updated[i].Id = id
                              /\ \A j \in 1..Len(updated) : updated[j].Id = id => j <= i
               IN updated[last]
          ELSE view[id]]

\* the views a receiver builds from the full state GetInitialStateDelta
\* returns on players ps, one for each order of its range loop
FullStateViews(ps, last) ==
    {ApplyDelta(EmptyMap, GetInitialStateDeltaResult(ps, last, order).delta) :
        order \in Orders(DOMAIN ps)}

\* C34: the delta a GenerateDeltaUpdate returns, applied to the snapshot as
\* it was before the call, gives the full state GetInitialStateDelta returns
\* at that moment, and this is the snapshot after the call.
C34_DeltaOnSnapshotIsFullState ==
    [][ret'.op = "GenerateDeltaUpdate" =>
          /\ FullStateViews(players', lastBroadcastPlayers')
                = {ApplyDelta(lastBroadcastPlayers, ret'.delta)}
          /\ lastBroadcastPlayers' = ApplyDelta(lastBroadcastPlayers, ret'.delta)]_vars

\* C34 witness: a GenerateDeltaUpdate has returned a delta that updates one
\* player and removes another
C34_Witness ==
    /\ ret.op = "GenerateDeltaUpdate"
    /\ ret.changed
    /\ Len(ret.delta.UpdatedPlayers) > 0
    /\ Len(ret.delta.RemovedPlayerIds) > 0
    /\ lastBroadcastPlayers = [id \in DOMAIN players |-> players[id].PlayerData]

-----------------------------------------------------------------------------
(* The step of a move *)

\* the axis (1 is x, 2 is y) and the sign of a direction's unit step
StepAxis(direction) == IF direction \in {"LEFT", "RIGHT"} THEN 1 ELSE 2
StepSign(direction) == IF direction \in {"UP", "LEFT"} THEN -1 ELSE 1

\* the bound of the world a center moving in direction runs into
WorldBound(direction) ==
    CASE direction = "LEFT" -> worldMinX + PlayerHalfWidth
      [] direction = "RIGHT" -> worldMaxX - PlayerHalfWidth
      [] direction = "UP" -> worldMinY + PlayerHalfHeight
      [] direction = "DOWN" -> worldMaxY - PlayerHalfHeight

\* C35: an ApplyInput changes the position only along the axis of the
\* requested direction and in its sign (UP decreases y, DOWN increases y,
\* LEFT decreases x, RIGHT increases x), by PlayerMoveSpeed or, when the
\* step ends on the world bound, by less; the other coordinate, and both
\* for UNKNOWN, stay.
C35_MoveIsOneStepOnOneAxis ==
    (ret.op = "ApplyInput" /\ ret.ok) =>
        LET from == ret.from
            to == <<ret.player.XPos, ret.player.YPos>>
        IN IF ret.direction = UNKNOWN
           THEN to = from
           ELSE LET axis == StepAxis(ret.direction)
                    by == StepSign(ret.direction) * (to[axis] - from[axis])
                IN /\ to[3 - axis] = from[3 - axis]
                   /\ by \in 0..PlayerMoveSpeed
                   /\ by \in 1..(PlayerMoveSpeed - 1)
                         => to[axis] = WorldBound(ret.direction)
                   /\ to # from =>
                         \/ by = PlayerMoveSpeed
                         \/ to[axis] = WorldBound(ret.direction)

\* C35 witness: an ApplyInput has moved a player up by less than
\* PlayerMoveSpeed, onto the world bound
C35_Witness ==
    /\ ret.op = "ApplyInput"
    /\ ret.ok
    /\ ret.direction = "UP"
    /\ ret.player.XPos = ret.from[1]
    /\ ret.from[2] - ret.player.YPos \in 1..(PlayerMoveSpeed - 1)
    /\ ret.player.YPos = worldMinY + PlayerHalfHeight

-----------------------------------------------------------------------------
(* The snapshot's entries.  GenerateDeltaUpdate stores in the snapshot the  *)
(* proto.Clone of each PlayerData, a fresh object; ApplyInput writes XPos,  *)
(* YPos and CurrentAnimationState into the map's own PlayerData object.     *)
(* held.shared is the set of ids whose snapshot entry is the object the map *)
(* holds.                                                                   *)

\* a 9 x 4 tile map without walls: x ranges over 64..224, y is 64; two
\* players fit side by side
MapWide == << <<0, 0, 0, 0, 0, 0, 0, 0, 0>>,
              <<0, 0, 0, 0, 0, 0, 0, 0, 0>>,
              <<0, 0, 0, 0, 0, 0, 0, 0, 0>>,
              <<0, 0, 0, 0, 0, 0, 0, 0, 0>> >>
SnapshotMaps == {MapWide}
\* start coordinates at the two ends of the world
SnapshotStartCoords == {0, 1000}
SnapshotInputDirections == {"LEFT"}
SnapshotDirections == {"UNKNOWN"}

\* proto.Clone returning its argument instead of a copy
CloneSharesObject(ids) == ids

\* the ids whose clone is the object it was cloned from
CloneShares(ids) == {}

InitSnapshot ==
    /\ mu = NoHolder
    /\ calls = IdleCalls
    /\ concHist = NoHistory
    /\ held = [op |-> "NewState", shared |-> {}]
    /\ NoConnections
    /\ worldMap \in SnapshotMaps
    /\ players = EmptyMap
    /\ lastBroadcastPlayers = EmptyMap
    /\ ret = [op |-> "NewState"]
    /\ liveIds = {}
    /\ sinceDelta = NoEvents
    /\ cleanSinceDelta = FALSE

\* AddPlayer stores a new PlayerData object under playerID
SnapshotAddPlayer(playerID, username, startX, startY) ==
    /\ AddPlayer(playerID, username, startX, startY)
    /\ held' = [op |-> "AddPlayer", shared |-> held.shared \ {playerID}]

\* RemovePlayer deletes the map's entry
SnapshotRemovePlayer(playerID) ==
    /\ RemovePlayer(playerID)
    /\ held' = [op |-> "RemovePlayer", shared |-> held.shared \ {playerID}]

\* ApplyInput writes the map's PlayerData object: a snapshot entry that is
\* this object shows the write
SnapshotApplyInput(playerID, direction) ==
    /\ IF playerID \notin DOMAIN players
       THEN /\ players' = players
            /\ ret' = [op |-> "ApplyInput", id |-> playerID, ok |-> FALSE]
       ELSE /\ players' = ApplyInputPlayers(players, playerID, direction)
            /\ ret' = [op |-> "ApplyInput", id |-> playerID, ok |-> TRUE,
                       direction |-> direction,
                       from |-> <<players[playerID].PlayerData.XPos,
                                  players[playerID].PlayerData.YPos>>,
                       player |-> players'[playerID].PlayerData]
    /\ lastBroadcastPlayers' =
          [id \in DOMAIN lastBroadcastPlayers |->
              IF id \in held.shared /\ id \in DOMAIN players'
              THEN players'[id].PlayerData
              ELSE lastBroadcastPlayers[id]]
    /\ held' = [op |-> "ApplyInput", shared |-> held.shared]
    /\ cleanSinceDelta' = (cleanSinceDelta /\ players' = players)
    /\ UNCHANGED <<worldMap, liveIds, sinceDelta>>

\* UpdatePlayerDirection writes LastDirection of the trackedPlayer only
SnapshotUpdatePlayerDirection(playerID, dir) ==
    /\ UpdatePlayerDirection(playerID, dir)
    /\ held' = [op |-> "UpdatePlayerDirection", shared |-> held.shared]

\* GenerateDeltaUpdate: when it replaces the snapshot, the entries are the
\* clones it made
SnapshotGenerateDeltaUpdate ==
    /\ GenerateDeltaUpdate
    /\ held' = [op |-> "GenerateDeltaUpdate",
                shared |-> IF ret'.changed
                           THEN CloneShares(DOMAIN players)
                           ELSE held.shared]

NextSnapshot ==
    /\ \/ \E playerID \in PlayerIDs \ DOMAIN players, username \in Usernames,
             startX, startY \in SnapshotStartCoords :
             SnapshotAddPlayer(playerID, username, startX, startY)
       \/ \E playerID \in PlayerIDs : SnapshotRemovePlayer(playerID)
       \/ \E playerID \in PlayerIDs, direction \in SnapshotInputDirections :
             SnapshotApplyInput(playerID, direction)
       \/ \E playerID \in PlayerIDs, dir \in SnapshotDirections :
             SnapshotUpdatePlayerDirection(playerID, dir)
       \/ SnapshotGenerateDeltaUpdate
    /\ UNCHANGED <<concVars, srvVars>>

SpecSnapshot == InitSnapshot /\ [][NextSnapshot]_vars

\* C39: an ApplyInput for one id leaves every other player's record and the
\* set of live players as they were, and leaves the snapshot as it was; the
\* snapshot changes only in a GenerateDeltaUpdate that returns changed = true.
C39_ApplyInputTouchesOneRecordOnly ==
    [][/\ ret'.op = "ApplyInput" =>
             /\ DOMAIN players' = DOMAIN players
             /\ \A other \in DOMAIN players \ {ret'.id} : players'[other] = players[other]
             /\ lastBroadcastPlayers' = lastBroadcastPlayers
       /\ lastBroadcastPlayers' # lastBroadcastPlayers =>
             (ret'.op = "GenerateDeltaUpdate" /\ ret'.changed)]_vars

\* C39 witness: an ApplyInput has moved a player that is in the snapshot,
\* next to another live player; the snapshot shows the position before
C39_Witness ==
    /\ ret.op = "ApplyInput"
    /\ ret.ok
    /\ <<ret.player.XPos, ret.player.YPos>> # ret.from
    /\ ret.id \in DOMAIN lastBroadcastPlayers
    /\ <<lastBroadcastPlayers[ret.id].XPos, lastBroadcastPlayers[ret.id].YPos>> = ret.from
    /\ DOMAIN players = PlayerIDs
    /\ DOMAIN lastBroadcastPlayers = PlayerIDs

-----------------------------------------------------------------------------
(* Players sharing space *)

\* C33: in every reachable state no two live players' boxes overlap, right
\* after AddPlayer included.
C33_NoTwoPlayersOverlap ==
    \A a \in DOMAIN players : \A b \in DOMAIN players \ {a} :
        ~BoxesOverlap(PositionOf(players[a]), PositionOf(players[b]))

-----------------------------------------------------------------------------
(* Rejected connections (specification SpecServer) *)

\* the handler of id returned from a failed first Recv
Rejected(id) == calls[id].pc = "returned" /\ calls[id].done = << >>

\* C40: a GameStream whose first Recv gives no ClientHello (another message,
\* the end of the stream or an error) returns with the store, the snapshot,
\* the registry and what the clients were sent as they were, and its handler
\* takes no step after that: no AddPlayer, no addStream, no broadcast.
C40_RejectedHelloHasNoEffect ==
    [][/\ (ret'.op = "GameStream" /\ ~ret'.joined) =>
             /\ calls'[ret'.id].pc = "returned"
             /\ calls'[ret'.id].done = << >>
             /\ UNCHANGED <<players, lastBroadcastPlayers, activeStreams, delivered>>
       /\ \A id \in PlayerIDs : Rejected(id) => calls'[id] = calls[id]]_vars

\* C40 witness: a connection was rejected while another player is live and
\* registered
C40_Witness ==
    /\ ret.op = "GameStream"
    /\ ~ret.joined
    /\ Rejected(ret.id)
    /\ ret.id \notin DOMAIN players
    /\ \E other \in PlayerIDs \ {ret.id} :
          other \in DOMAIN players /\ other \in activeStreams

-----------------------------------------------------------------------------
(* The sweep against fresh input (specification SpecSweep) *)

\* C32: when the tick driver's UpdatePlayerDirection resets a player's
\* direction to UNKNOWN, the player's most recent input is older than
\* movementTimeout at that moment: an ApplyInput between the sweep's test and
\* its update is not overwritten.
C32_SweepKeepsFreshInput ==
    [][\A id \in DOMAIN players :
          (/\ TickUpdatePlayerDirection
           /\ ret'.id = id
           /\ ret'.changed)
              => players[id].SinceLastInput > movementTimeout]_vars

-----------------------------------------------------------------------------
(* The two locks.  State.mu is a sync.RWMutex: Lock takes the writers'     *)
(* mutex, then waits until the active readers have left; RLock blocks      *)
(* while a writer holds or waits for the lock; Unlock admits the readers   *)
(* blocked meanwhile.  gameServer.muStreams is a sync.Mutex.  Every method *)
(* releases its lock with a deferred Unlock before it returns.  The data   *)
(* is left out: what a goroutine calls next is any call its code can make. *)

WriteCalls == {"AddPlayer", "RemovePlayer", "ApplyInput", "UpdatePlayerDirection",
               "GenerateDeltaUpdate"}
ReadCalls == {"GetMapDataAndDimensions", "GetWorldPixelDimensions",
              "GetInitialStateDelta", "GetAllPlayerIDs", "GetTrackedPlayer"}
\* muStreams.Lock in addStream, in removeStream and in broadcastDeltaState
StreamCalls == {"addStream", "removeStream", "broadcastDeltaState"}

\* State.mu with no holder: the writer that has the writers' mutex, the
\* active readers, the readers blocked behind the writer
RWMutexFree == [w |-> NoHolder, r |-> {}, blocked |-> {}]

\* a goroutine between two calls: at rest is "idle", "recv" or "returned"
AtRest(place) == [pc |-> place, op |-> "none", after |-> place]
\* a goroutine calling op, going to after when the broadcast it runs or
\* starts is over
Calling(op, after) == [pc |-> "call", op |-> op, after |-> after]

InitLocks ==
    /\ worldMap \in Maps
    /\ players = EmptyMap
    /\ lastBroadcastPlayers = EmptyMap
    /\ ret = [op |-> "NewState"]
    /\ liveIds = {}
    /\ sinceDelta = NoEvents
    /\ cleanSinceDelta = FALSE
    /\ mu = RWMutexFree
    /\ calls = [t \in ServerGoroutines |-> AtRest("idle")]
    /\ concHist = NoHistory
    /\ held = NoRecord
    /\ NoConnections

\* a writer's Unlock that leaves the lock held
RWMutexUnlockKeeps(m, t) == m

\* State.mu after the writer's Unlock: the blocked readers are admitted
RWMutexUnlock(m, t) == [w |-> NoHolder, r |-> m.blocked, blocked |-> {}]

\* what goroutine t does when the call c.op has returned
Continue(t, c) ==
    CASE c.op = "AddPlayer" -> {Calling("addStream", "recv")}
      [] c.op = "addStream" -> {Calling("GetMapDataAndDimensions", "recv")}
      [] c.op = "GetMapDataAndDimensions" -> {Calling("GetWorldPixelDimensions", "recv")}
      \* the map is sent: on an error the deferred function runs
      [] c.op = "GetWorldPixelDimensions" ->
            {Calling("GetInitialStateDelta", "recv"), Calling("RemovePlayer", "returned")}
      \* the initial state is sent, then broadcastDeltaState
      [] c.op = "GetInitialStateDelta" ->
            {Calling("GenerateDeltaUpdate", "recv"), Calling("RemovePlayer", "returned")}
      [] c.op = "ApplyInput" -> {Calling("GenerateDeltaUpdate", "recv")}
      [] c.op = "RemovePlayer" -> {Calling("removeStream", "returned")}
      [] c.op = "removeStream" -> {Calling("GenerateDeltaUpdate", "returned")}
      \* broadcastDeltaState: if !changed it returns, else muStreams.Lock
      [] c.op = "GenerateDeltaUpdate" ->
            {AtRest(c.after), Calling("broadcastDeltaState", c.after)}
      [] c.op = "broadcastDeltaState" -> {AtRest(c.after)}
      \* gameTick: the loop over the ids, then broadcastDeltaState if a
      \* direction was reset
      [] c.op = "GetAllPlayerIDs" -> {Calling("GetTrackedPlayer", "idle"), AtRest("idle")}
      [] c.op = "GetTrackedPlayer" ->
            {Calling("GetTrackedPlayer", "idle"), Calling("UpdatePlayerDirection", "idle"),
             Calling("GenerateDeltaUpdate", "idle"), AtRest("idle")}
      [] c.op = "UpdatePlayerDirection" ->
            {Calling("GetTrackedPlayer", "idle"), Calling("GenerateDeltaUpdate", "idle")}

\* a goroutine at rest makes its next call: the ticker fires; a handler
\* gets a ClientHello, a PlayerInput or the end of its stream, and a handler
\* that returned is followed by the handler of a new connection
LockStart(t) ==
    /\ calls[t].pc \in {"idle", "recv", "returned"}
    /\ \E next \in CASE t = Ticker -> {Calling("GetAllPlayerIDs", "idle")}
                     [] calls[t].pc = "idle" -> {Calling("AddPlayer", "recv")}
                     [] calls[t].pc = "recv" -> {Calling("ApplyInput", "recv"),
                                                 Calling("RemovePlayer", "returned")}
                     [] OTHER -> {AtRest("idle")} :
          calls' = [calls EXCEPT ![t] = next]
    /\ ret' = [op |-> "call", by |-> t]
    /\ UNCHANGED <<mu, muStreams>>

\* s.mu.Lock(): the writers' mutex is granted; the writer has the lock when
\* no reader is active
LockWrite(t) ==
    /\ calls[t].pc = "call"
    /\ calls[t].op \in WriteCalls
    /\ mu.w = NoHolder
    /\ mu' = [mu EXCEPT !.w = t]
    /\ calls' = [calls EXCEPT ![t].pc = IF mu.r = {} THEN "in" ELSE "pending"]
    /\ ret' = [op |-> "Lock", by |-> t]
    /\ UNCHANGED muStreams

\* the last active reader has left: the waiting writer has the lock
LockWriteDrained(t) ==
    /\ calls[t].pc = "pending"
    /\ mu.r = {}
    /\ calls' = [calls EXCEPT ![t].pc = "in"]
    /\ ret' = [op |-> "Lock", by |-> t]
    /\ UNCHANGED <<mu, muStreams>>

\* s.mu.RLock(): granted unless a writer holds or waits for the lock
LockRead(t) ==
    /\ calls[t].pc = "call"
    /\ calls[t].op \in ReadCalls
    /\ IF mu.w = NoHolder
       THEN /\ mu' = [mu EXCEPT !.r = @ \cup {t}]
            /\ calls' = [calls EXCEPT ![t].pc = "in"]
       ELSE /\ mu' = [mu EXCEPT !.blocked = @ \cup {t}]
            /\ calls' = [calls EXCEPT ![t].pc = "blocked"]
    /\ ret' = [op |-> "RLock", by |-> t]
    /\ UNCHANGED muStreams

\* a reader admitted by the writer's Unlock goes on
LockReadAdmitted(t) ==
    /\ calls[t].pc = "blocked"
    /\ t \in mu.r
    /\ calls' = [calls EXCEPT ![t].pc = "in"]
    /\ ret' = [op |-> "RLock", by |-> t]
    /\ UNCHANGED <<mu, muStreams>>

\* s.muStreams.Lock()
LockStreams(t) ==
    /\ calls[t].pc = "call"
    /\ calls[t].op \in StreamCalls
    /\ muStreams = NoHolder
    /\ muStreams' = t
    /\ calls' = [calls EXCEPT ![t].pc = "in"]
    /\ ret' = [op |-> "muStreams.Lock", by |-> t]
    /\ UNCHANGED mu

\* the body of the method ran (in broadcastDeltaState every Send returned),
\* the deferred Unlock runs and the method returns
LockReturn(t) ==
    /\ calls[t].pc = "in"
    /\ IF calls[t].op \in WriteCalls
       THEN mu' = RWMutexUnlock(mu, t) /\ UNCHANGED muStreams
       ELSE IF calls[t].op \in ReadCalls
       THEN mu' = [mu EXCEPT !.r = @ \ {t}] /\ UNCHANGED muStreams
       ELSE muStreams' = NoHolder /\ UNCHANGED mu
    /\ \E next \in Continue(t, calls[t]) : calls' = [calls EXCEPT ![t] = next]
    /\ ret' = [op |-> "return", by |-> t]

LockFrame == UNCHANGED <<storeVars, concHist, aliasVars, activeStreams, streams,
                         delivered, received>>

\* the steps goroutine t takes when nothing holds it up
LockProgress(t) ==
    /\ \/ LockWriteDrained(t)
       \/ LockRead(t)
       \/ LockReadAdmitted(t)
       \/ LockReturn(t)
    /\ LockFrame

LockWriteGranted(t) == LockWrite(t) /\ LockFrame
LockStreamsGranted(t) == LockStreams(t) /\ LockFrame

NextLocks ==
    \E t \in ServerGoroutines :
        \/ LockStart(t) /\ LockFrame
        \/ LockWriteGranted(t)
        \/ LockStreamsGranted(t)
        \/ LockProgress(t)

SpecLocks == InitLocks /\ [][NextLocks]_vars

\* a goroutine that can go on does; a sync.Mutex that is released again and
\* again is granted to each goroutine waiting for it (a waiter that fails
\* to get the mutex puts it in starvation mode, where Unlock hands it to the
\* waiter at the front of the queue)
SpecLocksFair ==
    /\ SpecLocks
    /\ \A t \in ServerGoroutines :
          /\ WF_vars(LockProgress(t))
          /\ SF_vars(LockWriteGranted(t))
          /\ SF_vars(LockStreamsGranted(t))

\* goroutine t called Lock or RLock and does not have the lock yet
WaitsForLock(t) == calls[t].pc \in {"call", "pending", "blocked"}

\* goroutine t holds State.mu, or has its writers' mutex
HoldsStateLock(t) == mu.w = t \/ t \in mu.r \/ t \in mu.blocked

\* C37: no goroutine takes muStreams while it holds State.mu, and every
\* goroutine that calls Lock or RLock on either lock gets it, whatever the
\* handlers, their teardowns and the tick driver do meanwhile.
C37_LocksAreGranted ==
    /\ [][\A t \in ServerGoroutines :
             (muStreams' = t /\ muStreams # t) => ~HoldsStateLock(t)]_vars
    /\ \A t \in ServerGoroutines : WaitsForLock(t) ~> (calls[t].pc = "in")

\* C37 witness: a handler is inside the Sends of broadcastDeltaState with
\* muStreams, another has called removeStream in its teardown and waits for
\* muStreams, and the ticker has called UpdatePlayerDirection
C37_Witness ==
    /\ \E t \in PlayerIDs :
          /\ muStreams = t
          /\ calls[t].op = "broadcastDeltaState"
          /\ \E u \in PlayerIDs \ {t} :
                /\ calls[u].op = "removeStream"
                /\ calls[u].pc = "call"
    /\ calls[Ticker].pc = "call"
    /\ calls[Ticker].op = "UpdatePlayerDirection"

-----------------------------------------------------------------------------
(* Sends in progress.  stream.Send is a call that takes time: it is begun  *)
(* and, later, it returns.  The handler sends the map and the initial      *)
(* state on its own stream without a lock; broadcastDeltaState sends on    *)
(* every registered stream while it holds muStreams.  The handlers only:   *)
(* join, inputs, and the broadcasts they run.                              *)

\* a handler before its connection: its position, the stream its Send in
\* progress writes to, the streams its broadcast has still to visit
SenderIdle == [pc |-> "idle", to |-> "none", todo |-> << >>]

InitSends ==
    /\ worldMap \in Maps
    /\ players = EmptyMap
    /\ lastBroadcastPlayers = EmptyMap
    /\ ret = [op |-> "NewState"]
    /\ liveIds = {}
    /\ sinceDelta = NoEvents
    /\ cleanSinceDelta = FALSE
    /\ mu = NoHolder
    /\ calls = [t \in PlayerIDs |-> SenderIdle]
    /\ concHist = NoHistory
    /\ held = NoRecord
    /\ NoConnections

\* the first Recv gives a ClientHello: AddPlayer(playerID, username, 100, 100)
SendsHello(playerID) ==
    /\ calls[playerID].pc = "idle"
    /\ AddPlayer(playerID, "AnonPlayer", HandlerStartCoord, HandlerStartCoord)
    /\ calls' = [calls EXCEPT ![playerID].pc = "addStream"]
    /\ UNCHANGED <<activeStreams, muStreams>>

\* s.addStream(playerID, stream), from its Lock to its deferred Unlock
SendsAddStream(playerID) ==
    /\ calls[playerID].pc = "addStream"
    /\ CanLock(muStreams)
    /\ activeStreams' = activeStreams \cup {playerID}
    /\ calls' = [calls EXCEPT ![playerID].pc = "sendMap"]
    /\ ret' = [op |-> "addStream", id |-> playerID]
    /\ UNCHANGED <<storeVars, muStreams>>

\* the handler begins stream.Send(mapMessage), or, after GetInitialStateDelta,
\* stream.Send(initialStateMessage), on its own stream
SendsDirectBegin(playerID) ==
    /\ calls[playerID].pc \in {"sendMap", "sendInitial"}
    /\ calls' = [calls EXCEPT ![playerID] =
                    [@ EXCEPT !.pc = IF @ = "sendMap" THEN "sendingMap" ELSE "sendingInitial",
                              !.to = playerID]]
    /\ ret' = [op |-> "Send", by |-> playerID, id |-> playerID]
    /\ UNCHANGED <<storeVars, activeStreams, muStreams>>

\* the handler's Send returns nil: after the map the initial state, after
\* the initial state broadcastDeltaState
SendsDirectEnd(playerID) ==
    /\ calls[playerID].pc \in {"sendingMap", "sendingInitial"}
    /\ calls' = [calls EXCEPT ![playerID] =
                    [@ EXCEPT !.pc = IF @ = "sendingMap" THEN "sendInitial" ELSE "generate",
                              !.to = "none"]]
    /\ ret' = [op |-> "Sent", by |-> playerID, id |-> playerID]
    /\ UNCHANGED <<storeVars, activeStreams, muStreams>>

\* the receive loop gets a PlayerInput: ApplyInput, then broadcastDeltaState
SendsRecvInput(playerID, direction) ==
    /\ calls[playerID].pc = "recv"
    /\ ApplyInput(playerID, direction)
    /\ calls' = [calls EXCEPT ![playerID].pc = "generate"]
    /\ UNCHANGED <<activeStreams, muStreams>>

\* broadcastDeltaState: GenerateDeltaUpdate, and the return if !changed
SendsGenerate(t) ==
    /\ calls[t].pc = "generate"
    /\ GenerateDeltaUpdate
    /\ calls' = [calls EXCEPT ![t].pc = IF ret'.changed THEN "lockStreams" ELSE "recv"]
    /\ UNCHANGED <<activeStreams, muStreams>>

\* s.muStreams.Lock(); the range loop visits the registered streams in
\* some order
SendsLockStreams(t) ==
    /\ calls[t].pc = "lockStreams"
    /\ CanLock(muStreams)
    /\ muStreams' = t
    /\ \E order \in Orders(activeStreams) :
          calls' = [calls EXCEPT ![t] = [@ EXCEPT !.pc = "loop", !.todo = order]]
    /\ ret' = [op |-> "Lock", by |-> t]
    /\ UNCHANGED <<storeVars, activeStreams>>

\* the loop begins stream.Send(deltaMessage) on the next registered stream
SendsLoopBegin(t) ==
    /\ calls[t].pc = "loop"
    /\ calls[t].todo # << >>
    /\ calls' = [calls EXCEPT ![t] = [@ EXCEPT !.pc = "sending", !.to = Head(calls[t].todo)]]
    /\ ret' = [op |-> "Send", by |-> t, id |-> Head(calls[t].todo)]
    /\ UNCHANGED <<storeVars, activeStreams, muStreams>>

\* the Send of the loop returns nil
SendsLoopEnd(t) ==
    /\ calls[t].pc = "sending"
    /\ calls' = [calls EXCEPT ![t] =
                    [@ EXCEPT !.pc = "loop", !.to = "none", !.todo = Tail(@)]]
    /\ ret' = [op |-> "Sent", by |-> t, id |-> calls[t].to]
    /\ UNCHANGED <<storeVars, activeStreams, muStreams>>

\* the loop is over: the deferred s.muStreams.Unlock(), and the return to
\* the receive loop
SendsUnlockStreams(t) ==
    /\ calls[t].pc = "loop"
    /\ calls[t].todo = << >>
    /\ muStreams' = NoHolder
    /\ calls' = [calls EXCEPT ![t].pc = "recv"]
    /\ ret' = [op |-> "broadcastDeltaState", by |-> t]
    /\ UNCHANGED <<storeVars, activeStreams>>

NextSends ==
    /\ \E t \in PlayerIDs :
          \/ SendsHello(t)
          \/ SendsAddStream(t)
          \/ SendsDirectBegin(t)
          \/ SendsDirectEnd(t)
          \/ \E direction \in Directions : SendsRecvInput(t, direction)
          \/ SendsGenerate(t)
          \/ SendsLockStreams(t)
          \/ SendsLoopBegin(t)
          \/ SendsLoopEnd(t)
          \/ SendsUnlockStreams(t)
    /\ UNCHANGED <<mu, concHist, aliasVars, streams, delivered, received>>

SpecSends == InitSends /\ [][NextSends]_vars

\* goroutine t is inside a Send on the stream of id
SendInProgress(t, id) ==
    /\ calls[t].pc \in {"sendingMap", "sendingInitial", "sending"}
    /\ calls[t].to = id

\* C36: at no time are two Sends in progress on the same client stream: the
\* handler's Send of the map or of the initial state to its joining client
\* never overlaps a Send of a broadcast to that client.
C36_OneSendPerStreamAtATime ==
    \A id \in PlayerIDs : \A t \in PlayerIDs : \A u \in PlayerIDs \ {t} :
        ~(SendInProgress(t, id) /\ SendInProgress(u, id))

-----------------------------------------------------------------------------
(* The order of the broadcasts.  broadcastDeltaState gets its delta from   *)
(* GenerateDeltaUpdate under State.mu, and sends it under muStreams, which *)
(* it takes after State.mu was released.  Here delivered[id] is the view   *)
(* the client of id has built: the initial full state, then every delta    *)
(* in the order it arrived.  A join is taken in one step (AddPlayer,       *)
(* addStream, the initial state), and so are the Sends of one broadcast.   *)

OrderDirections == {"UNKNOWN", "UP"}

\* a handler outside broadcastDeltaState, and the delta it has to send
OrderIdle == [pc |-> "idle", delta |-> NoDelta]

InitOrder ==
    /\ worldMap \in Maps
    /\ players = EmptyMap
    /\ lastBroadcastPlayers = EmptyMap
    /\ ret = [op |-> "NewState"]
    /\ liveIds = {}
    /\ sinceDelta = NoEvents
    /\ cleanSinceDelta = FALSE
    /\ mu = NoHolder
    /\ calls = [t \in PlayerIDs |-> OrderIdle]
    /\ concHist = NoHistory
    /\ held = NoRecord
    /\ activeStreams = {}
    /\ streams = [id \in PlayerIDs |-> "none"]
    /\ delivered = [id \in PlayerIDs |-> EmptyMap]
    /\ received = [id \in PlayerIDs |-> << >>]
    /\ muStreams = NoHolder

\* a client joins: AddPlayer, addStream, and the initial full state sent to
\* it; the handler goes to its broadcastDeltaState
OrderJoin(playerID) ==
    /\ calls[playerID].pc = "idle"
    /\ playerID \notin DOMAIN players
    /\ streams[playerID] = "none"
    /\ AddPlayer(playerID, "AnonPlayer", HandlerStartCoord, HandlerStartCoord)
    /\ activeStreams' = activeStreams \cup {playerID}
    /\ streams' = [streams EXCEPT ![playerID] = "open"]
    /\ \E order \in Orders(DOMAIN players') :
          delivered' = [delivered EXCEPT ![playerID] =
              ApplyDelta(EmptyMap,
                         GetInitialStateDeltaResult(players', lastBroadcastPlayers,
                                                    order).delta)]
    /\ calls' = [calls EXCEPT ![playerID].pc = "generate"]

\* the receive loop gets a PlayerInput: ApplyInput, then broadcastDeltaState
OrderRecvInput(playerID, direction) ==
    /\ calls[playerID].pc = "idle"
    /\ playerID \in DOMAIN players
    /\ ApplyInput(playerID, direction)
    /\ calls' = [calls EXCEPT ![playerID].pc = "generate"]
    /\ UNCHANGED <<activeStreams, streams, delivered>>

\* broadcastDeltaState: GenerateDeltaUpdate, and the return if !changed
OrderGenerate(t) ==
    /\ calls[t].pc = "generate"
    /\ GenerateDeltaUpdate
    /\ calls' = [calls EXCEPT ![t] =
                    IF ret'.changed
                    THEN [pc |-> "send", delta |-> ret'.delta]
                    ELSE OrderIdle]
    /\ UNCHANGED <<activeStreams, streams, delivered>>

\* broadcastDeltaState from s.muStreams.Lock() to its return: the delta is
\* sent on every registered stream
OrderSend(t) ==
    /\ calls[t].pc = "send"
    /\ CanLock(muStreams)
    /\ delivered' = [id \in PlayerIDs |->
                        IF id \in activeStreams
                        THEN ApplyDelta(delivered[id], calls[t].delta)
                        ELSE delivered[id]]
    /\ calls' = [calls EXCEPT ![t] = OrderIdle]
    /\ ret' = [op |-> "broadcastDeltaState", by |-> t, delta |-> calls[t].delta]
    /\ UNCHANGED <<storeVars, activeStreams, streams>>

NextOrder ==
    /\ \E t \in PlayerIDs :
          \/ OrderJoin(t)
          \/ \E direction \in OrderDirections : OrderRecvInput(t, direction)
          \/ OrderGenerate(t)
          \/ OrderSend(t)
    /\ UNCHANGED <<mu, muStreams, concHist, aliasVars, received>>

SpecOrder == InitOrder /\ [][NextOrder]_vars

\* C31: when no broadcast is in flight, the view of every connected client
\* (its initial full state with the deltas it received applied in the order
\* of arrival) equals the snapshot.
C31_ViewsEqualSnapshotAtRest ==
    (\A t \in PlayerIDs : calls[t].pc = "idle") =>
        \A id \in activeStreams : delivered[id] = lastBroadcastPlayers

-----------------------------------------------------------------------------
(* Every mutation and the GenerateDeltaUpdate after it.  The handlers make *)
(* AddPlayer, ApplyInput and RemovePlayer, each followed by a call of      *)
(* broadcastDeltaState; gameTick makes UpdatePlayerDirection and calls     *)
(* broadcastDeltaState after its loop if a direction was reset.  The       *)
(* registry and the Sends are left out: they do not touch the store, and   *)
(* every Send returns.  cleanSinceDelta says that the store was not        *)
(* written since the last GenerateDeltaUpdate, or since NewState.          *)

\* a handler before its connection, and where it goes after its broadcast
QuiesceIdle == [pc |-> "idle", after |-> "idle"]

InitQuiesce ==
    /\ worldMap \in Maps
    /\ players = EmptyMap
    /\ lastBroadcastPlayers = EmptyMap
    /\ ret = [op |-> "NewState"]
    /\ liveIds = {}
    /\ sinceDelta = NoEvents
    /\ cleanSinceDelta = TRUE
    /\ mu = NoHolder
    /\ calls = [t \in ServerGoroutines |-> IF t = Ticker THEN TickerIdle ELSE QuiesceIdle]
    /\ concHist = NoHistory
    /\ held = NoRecord
    /\ NoConnections

\* the first Recv gives a ClientHello: AddPlayer(playerID, username, 100, 100)
QuiesceHello(playerID) ==
    /\ calls[playerID].pc = "idle"
    /\ AddPlayer(playerID, "AnonPlayer", HandlerStartCoord, HandlerStartCoord)
    /\ calls' = [calls EXCEPT ![playerID].pc = "joining"]

\* addStream and the two Sends to the new client: then broadcastDeltaState
\* and the receive loop, or, on a Send error, the deferred function
QuiesceJoined(playerID) ==
    /\ calls[playerID].pc = "joining"
    /\ \/ calls' = [calls EXCEPT ![playerID] = [pc |-> "broadcast", after |-> "recv"]]
       \/ calls' = [calls EXCEPT ![playerID] = [pc |-> "RemovePlayer", after |-> "returned"]]
    /\ ret' = [op |-> "Send", id |-> playerID]
    /\ UNCHANGED storeVars

\* the receive loop gets a PlayerInput: ApplyInput, and broadcastDeltaState
\* if ok
QuiesceRecvInput(playerID, direction) ==
    /\ calls[playerID].pc = "recv"
    /\ ApplyInput(playerID, direction)
    /\ calls' = [calls EXCEPT ![playerID] =
                    IF HandlerBroadcasts(ret'.ok)
                    THEN [pc |-> "broadcast", after |-> "recv"]
                    ELSE [pc |-> "recv", after |-> "recv"]]

\* Recv gives io.EOF or an error: GameStream returns, the deferred function
\* runs
QuiesceRecvEnd(playerID) ==
    /\ calls[playerID].pc = "recv"
    /\ calls' = [calls EXCEPT ![playerID] = [pc |-> "RemovePlayer", after |-> "returned"]]
    /\ ret' = [op |-> "Recv", id |-> playerID, ended |-> TRUE]
    /\ UNCHANGED storeVars

\* the deferred function: RemovePlayer, removeStream, then broadcastDeltaState
QuiesceRemovePlayer(playerID) ==
    /\ calls[playerID].pc = "RemovePlayer"
    /\ RemovePlayer(playerID)
    /\ calls' = [calls EXCEPT ![playerID].pc = "broadcast"]

\* broadcastDeltaState of a handler: GenerateDeltaUpdate
QuiesceBroadcast(playerID) ==
    /\ calls[playerID].pc = "broadcast"
    /\ GenerateDeltaUpdate
    /\ calls' = [calls EXCEPT ![playerID].pc = calls[playerID].after]

\* the steps a handler takes without waiting for its client
QuiesceHandlerStep(playerID) ==
    /\ \/ QuiesceJoined(playerID)
       \/ QuiesceRemovePlayer(playerID)
       \/ QuiesceBroadcast(playerID)
    /\ UNCHANGED <<mu, concHist, aliasVars, srvVars>>

\* the steps that wait for a client
QuiesceClientStep ==
    /\ \E playerID \in PlayerIDs :
          \/ QuiesceHello(playerID)
          \/ \E direction \in TickDirections : QuiesceRecvInput(playerID, direction)
          \/ QuiesceRecvEnd(playerID)
    /\ UNCHANGED <<mu, concHist, aliasVars, srvVars>>

NextQuiesce ==
    \/ \E playerID \in PlayerIDs : QuiesceHandlerStep(playerID)
    \/ QuiesceClientStep
    \/ TickerNext
    \/ ClockNext

SpecQuiesce == InitQuiesce /\ [][NextQuiesce]_vars

\* every handler that can go on without its client does, the ticker fires
\* and gameTick runs to its end
SpecQuiesceFair ==
    /\ SpecQuiesce
    /\ \A playerID \in PlayerIDs : WF_vars(QuiesceHandlerStep(playerID))
    /\ WF_vars(TickerNext)

\* the snapshot holds exactly the live players, each with its current record
SnapshotIsCurrent ==
    lastBroadcastPlayers = [id \in DOMAIN players |-> players[id].PlayerData]

\* C38: every store mutation of the server (join, applied input, timeout
\* reset, leave) is followed by a GenerateDeltaUpdate, and from that
\* GenerateDeltaUpdate until the next mutation the snapshot holds exactly
\* the live players with their current records.
C38_MutationsReachTheSnapshot ==
    /\ ~cleanSinceDelta ~> cleanSinceDelta
    /\ [](cleanSinceDelta => SnapshotIsCurrent)

\* C38 witness: gameTick reset a direction and made its GenerateDeltaUpdate,
\* after a join, an input and a leave, and nothing was written since
C38_Witness ==
    /\ ret.op = "gameTick"
    /\ ret.generated
    /\ ret.reset # {}
    /\ cleanSinceDelta
    /\ \E id \in PlayerIDs : calls[id].pc = "returned"
    /\ \E id \in PlayerIDs : calls[id].pc = "recv" /\ id \in DOMAIN lastBroadcastPlayers

=============================================================================
